---- MODULE Spec2Model ----
(***************************************************************************)
(* Model of the solubility front end: the tier classifiers, the            *)
(* /api/predict and /api/solvents routes, the single and batch input       *)
(* forms, the page state and the SolventScreening ranking table.           *)
(*                                                                         *)
(* Numbers.  LogS values and temperatures are decimal numbers with at most *)
(* three fractional digits; the model holds them as integers in            *)
(* thousandths (0.5 is 500, -1.0 is -1000, 298.15 is 298150).  The         *)
(* thresholds of the code are exactly representable, so a comparison of    *)
(* such a number with a threshold gives the same answer in thousandths.    *)
(***************************************************************************)
EXTENDS Integers, Sequences, FiniteSets, TLC

VARIABLES
    logS,          \* the LogS value handed to the tier classifiers
    shown,         \* what the classifiers returned for logS (NoValue before the call)
    results,       \* Home: useState results
    resultType,    \* Home: useState resultType ("null", "prediction", "screening")
    isProcessing,  \* Home: useState isProcessing
    task,          \* the task prop of the input forms ("solpred", "solscreen")
    soluteName,    \* SingleSmilesInput: the five fields, each a text
    soluteSmiles,
    solventSmiles,
    solventName,
    temperature,
    file,          \* BatchSmilesInput: the selected file, Null or [name, text]
    fileName,      \* BatchSmilesInput: useState fileName
    hasSample,     \* BatchSmilesInput: useState hasSample
    sampleLoads,   \* the sample files whose fetch by handleTrySample is pending
    clearTrigger,  \* BatchSmilesInput: the clearTrigger prop
    pc,            \* the running form handler and the await it stands at
    locals,        \* the local variables the handler keeps across its awaits
    call,          \* what the current (or last) handler invocation has done so far
    apiReq,        \* the request in flight from the browser to a Next.js route
    apiResp,       \* the route's response in flight to the browser
    route,         \* the route invocation: its position and its local variables
    backendReq,    \* the request in flight from a route to the backend
    backendResp,   \* the backend's response in flight to the route
    view,          \* SolventScreening: useState view ("heatmap", "table")
    tableMode,     \* SolventScreening: useState tableMode ("single", "multi")
    selectedTemperature,  \* SolventScreening: useState selectedTemperature (thousandths of a kelvin)
    isEnhancedContrast,   \* SolventScreening: useState isEnhancedContrast
    dialogOpen,           \* SolventScreening: useState dialogOpen
    selectedImage,        \* SolventScreening: useState selectedImage (Null or [url, title])
    sheet          \* the worksheet of the last Excel export (Null before the first)

tierVars == <<logS, shown, sheet>>
pageVars == <<results, resultType, isProcessing>>
singleFormVars == <<task, soluteName, soluteSmiles, solventSmiles, solventName, temperature>>
fileVars == <<file, fileName, hasSample, sampleLoads, clearTrigger>>
formVars == <<singleFormVars, fileVars>>
handlerVars == <<pc, locals, call>>
netVars == <<apiReq, apiResp, route, backendReq, backendResp>>
dialogVars == <<isEnhancedContrast, dialogOpen, selectedImage>>
viewVars == <<view, tableMode, selectedTemperature, dialogVars>>
vars == <<tierVars, pageVars, formVars, handlerVars, netVars, viewVars>>

\* No classifier has been called yet.
NoValue == [called |-> FALSE]

\* The LogS values tried: every thousandth in -LogSRange .. LogSRange.
LogSRange == 7000
LogSValues == (0 - LogSRange) .. LogSRange

(***************************************************************************)
(* The tier classifiers.                                                   *)
(***************************************************************************)

\* lib/solubilityUtils.ts getLogSColor: the CSS variable pair of the tier.
getLogSColor(value) ==
    IF value >= 500 THEN [bg |-> "--solubility-excellent", text |-> "--solubility-excellent-foreground"]
    ELSE IF value >= -1000 THEN [bg |-> "--solubility-good", text |-> "--solubility-good-foreground"]
    ELSE IF value >= -3000 THEN [bg |-> "--solubility-moderate", text |-> "--solubility-moderate-foreground"]
    ELSE IF value >= -5000 THEN [bg |-> "--solubility-poor", text |-> "--solubility-poor-foreground"]
    ELSE [bg |-> "--solubility-insoluble", text |-> "--solubility-insoluble-foreground"]

\* The classification with a strict comparison at the first threshold.
getSolubilityClassification_Strict(x) ==
    IF x > 500 THEN "Excellent"
    ELSE IF x >= -1000 THEN "Good"
    ELSE IF x >= -3000 THEN "Moderate"
    ELSE IF x >= -5000 THEN "Poorly Soluble"
    ELSE "Practically Insoluble"

\* lib/solubilityUtils.ts getSolubilityClassification: the tier label.
getSolubilityClassification(x) ==
    IF x >= 500 THEN "Excellent"
    ELSE IF x >= -1000 THEN "Good"
    ELSE IF x >= -3000 THEN "Moderate"
    ELSE IF x >= -5000 THEN "Poorly Soluble"
    ELSE "Practically Insoluble"

\* components/molecule-table.tsx getSolubilityClass: the CSS class of the
\* Predicted LogS cell of the prediction table.
getSolubilityClass_table(logs) ==
    IF logs >= 500 THEN "solubility-excellent"
    ELSE IF logs >= -1000 THEN "solubility-good"
    ELSE IF logs >= -3000 THEN "solubility-moderate"
    ELSE IF logs >= -5000 THEN "solubility-poor"
    ELSE "solubility-insoluble"

\* The getSolubilityClass of the SolventScreening component (the screening table).
getSolubilityClass_screening(logs) ==
    IF logs >= 500 THEN "solubility-excellent"
    ELSE IF logs >= -1000 THEN "solubility-good"
    ELSE IF logs >= -3000 THEN "solubility-moderate"
    ELSE IF logs >= -5000 THEN "solubility-poor"
    ELSE "solubility-insoluble"

\* components/excel-export.tsx getSolubilityClass: label and ARGB fill of a cell.
getSolubilityClass_excel(logs) ==
    IF logs >= 500 THEN [label |-> "Excellent", bgColor |-> "FF006400", fgColor |-> "FFFFFFFF"]
    ELSE IF logs >= -1000 THEN [label |-> "Good", bgColor |-> "FF90EE90", fgColor |-> "FF166534"]
    ELSE IF logs >= -3000 THEN [label |-> "Moderate", bgColor |-> "FFFFD700", fgColor |-> "FF854D0E"]
    ELSE IF logs >= -5000 THEN [label |-> "Poorly Soluble", bgColor |-> "FFFF8C00", fgColor |-> "FF9A3412"]
    ELSE [label |-> "Practically Insoluble", bgColor |-> "FF8B0000", fgColor |-> "FFFFFFFF"]

\* lib/constants.ts CMC_SCALE: the label and colour of each key of the scale.
CMC_SCALE(key) ==
    CASE key = "-6 to -5" -> [label |-> "Practically Insoluble", color |-> "bg-red-600"]
      [] key = "-5 to -3" -> [label |-> "Poorly Soluble", color |-> "bg-orange-500"]
      [] key = "-3 to -1" -> [label |-> "Moderate", color |-> "bg-yellow-500"]
      [] key = "-1 to 0.5" -> [label |-> "Good", color |-> "bg-green-400"]
      [] key = "0.5+" -> [label |-> "Excellent", color |-> "bg-green-700"]

\* lib/constants.ts getCMCStatus.
getCMCStatus(x) ==
    IF x >= -6000 /\ x < -5000 THEN CMC_SCALE("-6 to -5")
    ELSE IF x >= -5000 /\ x < -3000 THEN CMC_SCALE("-5 to -3")
    ELSE IF x >= -3000 /\ x < -1000 THEN CMC_SCALE("-3 to -1")
    ELSE IF x >= -1000 /\ x <= 500 THEN CMC_SCALE("-1 to 0.5")
    ELSE IF x > 500 THEN CMC_SCALE("0.5+")
    ELSE CMC_SCALE("-6 to -5")

(***************************************************************************)
(* Text and JavaScript values.                                             *)
(*                                                                         *)
(* A text is a sequence of symbols.  A symbol is one character ("C", "3",  *)
(* ",", " ", a line feed, a double quote) or a whole column name such as   *)
(* "Temperature_K", which stands for its letters: a column name holds no   *)
(* comma, quote, space, digit-leading prefix or line feed, so every        *)
(* operation below treats it as it treats a run of letters.                *)
(*                                                                         *)
(* A JavaScript value is a one-field record: [str |-> text], [num |-> n]   *)
(* (n in thousandths), [nan |-> TRUE], [undef |-> TRUE], [null |-> TRUE].  *)
(***************************************************************************)
Comma == ","
Quote == "\""
LF == "\n"
Space == " "

Str(t) == [str |-> t]
Num(n) == [num |-> n]
NaN == [nan |-> TRUE]
Undefined == [undef |-> TRUE]
Null == [null |-> TRUE]

IsStr(v) == DOMAIN v = {"str"}
IsNum(v) == DOMAIN v = {"num"}

\* JavaScript truthiness of a value: "", 0, NaN, undefined and null are falsy.
Truthy(v) ==
    CASE IsStr(v) -> v.str # <<>>
      [] IsNum(v) -> v.num # 0
      [] OTHER -> FALSE

\* a || b
Or(a, b) == IF Truthy(a) THEN a ELSE b

\* x has the property f (optional chaining on the fields of a result).
Has(x, f) == f \in DOMAIN x

Sub(s, from, to) == IF from > to THEN <<>> ELSE SubSeq(s, from, to)

RECURSIVE IndexFrom(_, _, _)
\* String.prototype.indexOf(c, from) with positions counted from 1; 0 when absent.
IndexFrom(s, c, from) ==
    IF from > Len(s) THEN 0
    ELSE IF s[from] = c THEN from
    ELSE IndexFrom(s, c, from + 1)

IsWhite(c) == c \in {Space, LF, "\r", "\t"}

RECURSIVE TrimStart(_)
TrimStart(s) == IF s # <<>> /\ IsWhite(Head(s)) THEN TrimStart(Tail(s)) ELSE s

RECURSIVE TrimEnd(_)
TrimEnd(s) == IF s # <<>> /\ IsWhite(s[Len(s)]) THEN TrimEnd(Sub(s, 1, Len(s) - 1)) ELSE s

\* String.prototype.trim
Trim(s) == TrimEnd(TrimStart(s))

RECURSIVE Split(_, _)
\* String.prototype.split(sep) for a one-character separator.  (The text and
\* the position of the separator are bound by a quantifier: each is evaluated
\* once.)
Split(text, sep) ==
    CHOOSE parts \in
        { IF k = 0 THEN <<s>> ELSE <<Sub(s, 1, k - 1)>> \o Split(Sub(s, k + 1, Len(s)), sep) :
              s \in {text}, k \in {IndexFrom(text, sep, 1)} } : TRUE

\* line.split(",").map((v) => v.trim())
TrimmedValues(line) ==
    CHOOSE values \in
        { [j \in 1..Len(parts) |-> Trim(parts[j])] : parts \in {Split(line, Comma)} } : TRUE

DigitChars == <<"0", "1", "2", "3", "4", "5", "6", "7", "8", "9">>
IsDigit(c) == \E d \in 1..10 : DigitChars[d] = c
DigitVal(c) == (CHOOSE d \in 1..10 : DigitChars[d] = c) - 1

RECURSIVE DigitRun(_, _)
\* The number of digits of s from position i on.
DigitRun(s, i) == IF i <= Len(s) /\ IsDigit(s[i]) THEN 1 + DigitRun(s, i + 1) ELSE 0

RECURSIVE DigitsValue(_, _, _, _)
\* The value of the digits s[i..j], each weighted: the first by w, the next by w
\* \div 10 and so on (w = 10^(n-1) reads an n digit integer, w = 100 reads a
\* fraction in thousandths and drops what lies beyond the third digit).
DigitsValue(s, i, j, w) ==
    IF i > j THEN 0 ELSE DigitVal(s[i]) * w + DigitsValue(s, i + 1, j, w \div 10)

RECURSIVE Pow10(_)
Pow10(n) == IF n = 0 THEN 1 ELSE 10 * Pow10(n - 1)

\* parseFloat of a text: leading white space is skipped, then an optional sign,
\* digits, an optional "." and digits are read and the rest is ignored; NaN
\* when no digit is read.  (Exponents and "Infinity" need letters "e", "I" that
\* the texts of the model do not hold.)
parseFloatText(t) ==
    LET s == TrimStart(t)
        neg == s # <<>> /\ s[1] = "-"
        i0 == IF s # <<>> /\ s[1] \in {"-", "+"} THEN 2 ELSE 1
        ni == DigitRun(s, i0)
        dot == (i0 + ni <= Len(s)) /\ s[i0 + ni] = "."
        nf == IF dot THEN DigitRun(s, i0 + ni + 1) ELSE 0
        int == IF ni = 0 THEN 0 ELSE DigitsValue(s, i0, i0 + ni - 1, Pow10(ni - 1))
        frac == DigitsValue(s, i0 + ni + 1, i0 + ni + nf, 100)
        mag == int * 1000 + frac
    IN  IF ni = 0 /\ nf = 0 THEN NaN
        ELSE Num(IF neg THEN 0 - mag ELSE mag)

\* parseFloat(value): the argument is converted to a string first, and the
\* strings "undefined" and "null" hold no digit.
parseFloat(v) ==
    CASE IsStr(v) -> parseFloatText(v.str)
      [] IsNum(v) -> v
      [] OTHER -> NaN

(***************************************************************************)
(* Papa.parse(fileText, {header: true, skipEmptyLines: true}).             *)
(* The delimiter is the comma and the line break the line feed (what       *)
(* Papa's detection settles on for the texts of the model).                *)
(***************************************************************************)
RECURSIVE SpacesFrom(_, _)
\* The number of spaces of s from position i on.
SpacesFrom(s, i) == IF i <= Len(s) /\ s[i] = Space THEN 1 + SpacesFrom(s, i + 1) ELSE 0

RECURSIVE Unescape(_)
\* value.replace(/""/g, '"'): a doubled quote inside a quoted field is one quote.
Unescape(text) ==
    CHOOSE value \in
        { IF Len(t) >= 2 /\ t[1] = Quote /\ t[2] = Quote THEN <<Quote>> \o Unescape(Sub(t, 3, Len(t)))
          ELSE IF t = <<>> THEN <<>>
          ELSE <<Head(t)>> \o Unescape(Tail(t)) : t \in {text} } : TRUE

RECURSIVE PapaClose(_, _)
\* The quote that closes a quoted field, searched from position q on: how the
\* field ends ("eof", "delim", "newline"; "missing" when no quote closes it),
\* where the closing quote is and where the next field starts.
PapaClose(s, q) ==
    LET k == IndexFrom(s, Quote, q)
        sp == SpacesFrom(s, k + 1)
    IN  IF k = 0 THEN [end |-> "missing", at |-> 0, next |-> Len(s) + 1]
        ELSE IF k = Len(s) THEN [end |-> "eof", at |-> k, next |-> k + 1]
        ELSE IF s[k + 1] = Quote THEN PapaClose(s, k + 2)
        ELSE IF k + 1 + sp <= Len(s) /\ s[k + 1 + sp] = Comma
             THEN [end |-> "delim", at |-> k, next |-> k + 2 + sp]
        ELSE IF k + 1 + sp <= Len(s) /\ s[k + 1 + sp] = LF
             THEN [end |-> "newline", at |-> k, next |-> k + 2 + sp]
        ELSE PapaClose(s, k + 1)

RECURSIVE PapaScan(_, _, _, _)
\* Parser.parse: the rows of fields of s from the cursor on, after the fields
\* `row` of the current line and the finished lines `rows`.
\* (The arguments are bound by a quantifier: each is evaluated once.)
PapaScan(s, from, fields, lines) ==
    CHOOSE parsed \in
      { IF cursor <= Len(s) /\ s[cursor] = Quote THEN
            LET c == PapaClose(s, cursor + 1)
                value == Unescape(Sub(s, cursor + 1, c.at - 1))
            IN  CASE c.end = "missing" -> Append(rows, Append(row, Sub(s, cursor + 1, Len(s))))
                  [] c.end = "eof" -> Append(rows, Append(row, value))
                  [] c.end = "delim" -> PapaScan(s, c.next, Append(row, value), rows)
                  [] c.end = "newline" -> PapaScan(s, c.next, <<>>, Append(rows, Append(row, value)))
        ELSE
            LET d == IndexFrom(s, Comma, cursor)
                n == IndexFrom(s, LF, cursor)
            IN  IF d # 0 /\ (d < n \/ n = 0)
                THEN PapaScan(s, d + 1, Append(row, Sub(s, cursor, d - 1)), rows)
                ELSE IF n # 0
                THEN PapaScan(s, n + 1, <<>>, Append(rows, Append(row, Sub(s, cursor, n - 1))))
                ELSE Append(rows, Append(row, Sub(s, cursor, Len(s)))) :
        cursor \in {from}, row \in {fields}, rows \in {lines} } : TRUE

\* skipEmptyLines: true drops every line that is one empty field.
PapaLines(s) ==
    IF s = <<>> THEN <<>>
    ELSE SelectSeq(PapaScan(s, 1, <<>>, <<>>), LAMBDA r : r # << <<>> >>)

\* header: true turns a line into an object keyed by the header line's fields;
\* a field beyond the header goes to __parsed_extra and a missing field leaves
\* its key undefined.  Of two columns of one name the later one wins.
PapaObject(header, line) ==
    LET n == IF Len(header) < Len(line) THEN Len(header) ELSE Len(line) IN
    [h \in {header[j] : j \in 1..n} |->
        line[CHOOSE j \in 1..n : header[j] = h /\ \A k \in 1..n : header[k] = h => k <= j]]

\* parsedCSV.data
PapaParse(s) ==
    CHOOSE data \in
        { IF lines = <<>> THEN <<>>
          ELSE [i \in 1..(Len(lines) - 1) |-> PapaObject(lines[1], lines[i + 1])] :
              lines \in {PapaLines(s)} } : TRUE

\* row.name: the value of a column of a parsed row, undefined when the row has none.
Field(row, name) == IF <<name>> \in DOMAIN row THEN Str(row[<<name>>]) ELSE Undefined

(***************************************************************************)
(* The state after construction.                                           *)
(***************************************************************************)
\* No handler invocation yet: which handler, how many requests it issued to
\* /api/predict and /api/solvents, the arguments of its onProcessingStateChange calls, the number of its onProcess
\* calls, its last toast and how it ended.
NoCall == [handler |-> "none", requests |-> 0, processing |-> <<>>, onProcess |-> 0,
           toast |-> <<"none">>, outcome |-> "none"]
NoHandler == [who |-> "none", at |-> "idle"]
NoLocals == [data |-> <<>>, images |-> <<>>]
\* No route invocation yet: its position, which route, its local variables,
\* the number of its requests to the backend, the body of the request it serves,
\* the JSON body it posted to the backend and the response it got back.
RouteIdle == [pc |-> "idle", name |-> "none", csvData |-> <<>>, backendPayload |-> <<>>,
              fetches |-> 0, request |-> Null, sent |-> <<>>, received |-> Null]

PageInitial == results = Null /\ resultType = "null" /\ isProcessing = FALSE
HandlerIdle == pc = NoHandler /\ locals = NoLocals /\ call = NoCall
NetIdle ==
    /\ apiReq = Null /\ apiResp = Null /\ route = RouteIdle
    /\ backendReq = Null /\ backendResp = Null
\* The useState initial values of SolventScreening.
ScreeningInitial ==
    /\ view = "heatmap" /\ tableMode = "single" /\ selectedTemperature = 300000
    /\ isEnhancedContrast = FALSE /\ dialogOpen = FALSE /\ selectedImage = Null
AppIdle == PageInitial /\ HandlerIdle /\ NetIdle /\ ScreeningInitial

\* useState("") for the four text fields and useState("300") for the temperature.
FormEmpty ==
    /\ soluteName = <<>> /\ soluteSmiles = <<>> /\ solventSmiles = <<>>
    /\ solventName = <<>> /\ temperature = <<"3", "0", "0">>

\* The batch form with its file chosen by the user (or none): the name shown
\* is the file's, no sample is loaded and none is being fetched.
FileInitial ==
    /\ fileName = (IF file = Null THEN "" ELSE file.name)
    /\ hasSample = FALSE
    /\ sampleLoads = <<>>
    /\ clearTrigger = 0

\* A fetch that rejected (the server could not be reached).
FetchFailed == [failed |-> TRUE]
Failed(resp) == "failed" \in DOMAIN resp

(***************************************************************************)
(* POST /api/predict.                                                      *)
(***************************************************************************)
\* parseNumber: null for null, undefined, "" and for what parseFloat cannot read.
parseNumber(value) ==
    IF value \in {Null, Undefined, Str(<<>>)} THEN Null
    ELSE IF parseFloat(value) = NaN THEN Null ELSE parseFloat(value)

\* One element of backendPayload: the query built from one parsed CSV row.
backendQuery(row) ==
    [ solute_smiles |-> Or(Or(Field(row, "SMILES_Solute"), Field(row, "solute_smiles")),
                           Field(row, "Solute_SMILES")),
      solvent_smiles |-> Or(Or(Field(row, "SMILES_Solvent"), Field(row, "solvent_smiles")),
                            Field(row, "Solvent_SMILES")),
      temperature_k |-> parseFloat(Or(Or(Field(row, "Temperature_K"), Field(row, "temperature_k")),
                                      Str(<<"2", "9", "8", ".", "1", "5">>))) ]

\* JSON.stringify of a query: NaN is written as null (an undefined property is
\* left out; the model keeps it with the value Undefined).
JsonQuery(q) == [q EXCEPT !.temperature_k = IF @ = NaN THEN Null ELSE @]

\* The merge that reads the first CSV row and the first query for every prediction.
mergedRow_First(pred, csvData, backendPayload, index) ==
    LET csvRow == IF 1 <= Len(csvData) THEN csvData[1] ELSE <<>> IN
    [ solute_smiles |-> backendPayload[1].solute_smiles,
      solvent_smiles |-> backendPayload[1].solvent_smiles,
      solvent_name |-> Or(Or(Or(Field(csvRow, "Solvent_Name"), Field(csvRow, "Solvent")),
                             Field(csvRow, "solvent_name")), Null),
      temperature_k |-> pred.temperature_k,
      predicted_logs |-> pred.predicted_logs,
      warning |-> pred.warning,
      compound_name |-> Or(Or(Field(csvRow, "Compound_Name"), Field(csvRow, "compound_name")), Null),
      cas |-> Or(Or(Field(csvRow, "CAS"), Field(csvRow, "cas")), Null),
      pubchem_cid |-> parseNumber(Or(Field(csvRow, "PubChem_CID"), Field(csvRow, "pubchem_cid"))),
      fda_approved |-> Or(Or(Field(csvRow, "FDA_Approved"), Field(csvRow, "fda_approved")), Null),
      source |-> Or(Or(Field(csvRow, "Source"), Field(csvRow, "source")), Null),
      actual_logs |-> parseNumber(Or(Field(csvRow, "LogS(mol/L)"), Field(csvRow, "actual_logs"))) ]

\* One element of mergedData: prediction `index` merged with CSV row `index`
\* (csvData[index] || {}) and with the query sent for it.
mergedRow(pred, csvData, backendPayload, index) ==
    LET csvRow == IF index <= Len(csvData) THEN csvData[index] ELSE <<>> IN
    [ solute_smiles |-> backendPayload[index].solute_smiles,
      solvent_smiles |-> backendPayload[index].solvent_smiles,
      solvent_name |-> Or(Or(Or(Field(csvRow, "Solvent_Name"), Field(csvRow, "Solvent")),
                             Field(csvRow, "solvent_name")), Null),
      temperature_k |-> pred.temperature_k,
      predicted_logs |-> pred.predicted_logs,
      warning |-> pred.warning,
      compound_name |-> Or(Or(Field(csvRow, "Compound_Name"), Field(csvRow, "compound_name")), Null),
      cas |-> Or(Or(Field(csvRow, "CAS"), Field(csvRow, "cas")), Null),
      pubchem_cid |-> parseNumber(Or(Field(csvRow, "PubChem_CID"), Field(csvRow, "pubchem_cid"))),
      fda_approved |-> Or(Or(Field(csvRow, "FDA_Approved"), Field(csvRow, "fda_approved")), Null),
      source |-> Or(Or(Field(csvRow, "Source"), Field(csvRow, "source")), Null),
      actual_logs |-> parseNumber(Or(Field(csvRow, "LogS(mol/L)"), Field(csvRow, "actual_logs"))) ]

\* The route up to its fetch of the backend: the file is parsed, one query is
\* built per row and the array is posted to BACKEND_URL/predict.
RoutePredictStart ==
    /\ apiReq # Null /\ apiReq.route = "predict"
    /\ route.pc = "idle"
    /\ \E csvData \in {IF apiReq.file = Null THEN <<>> ELSE PapaParse(apiReq.file.text)} :
       \E backendPayload \in {[i \in 1..Len(csvData) |-> backendQuery(csvData[i])]} :
           IF apiReq.file = Null
           THEN /\ apiResp' = [ok |-> FALSE, status |-> 400, body |-> [error |-> <<"No file provided">>]]
                /\ route' = [RouteIdle EXCEPT !.name = "predict", !.request = apiReq.file]
                /\ UNCHANGED backendReq
           ELSE /\ route' = [pc |-> "awaitBackend", name |-> "predict", csvData |-> csvData,
                             backendPayload |-> backendPayload, fetches |-> 1,
                             request |-> apiReq.file,
                             sent |-> [i \in 1..Len(csvData) |-> JsonQuery(backendPayload[i])],
                             received |-> Null]
                /\ backendReq' = [endpoint |-> "/predict",
                                  body |-> [i \in 1..Len(csvData) |-> JsonQuery(backendPayload[i])]]
                /\ UNCHANGED apiResp
    /\ apiReq' = Null
    /\ UNCHANGED <<backendResp, tierVars, viewVars, pageVars, formVars, handlerVars>>

\* The route after its fetch of the backend settled.
RoutePredictFinish ==
    /\ route.pc = "awaitBackend" /\ route.name = "predict"
    /\ backendResp # Null
    /\ apiResp' =
         IF Failed(backendResp)
         THEN [ok |-> FALSE, status |-> 500, body |-> [error |-> <<"fetch failed">>]]
         ELSE IF ~backendResp.ok
         THEN [ok |-> FALSE, status |-> backendResp.status,
               body |-> [error |-> <<"Backend error: ", backendResp.statusText>>]]
         ELSE IF "array" \notin DOMAIN backendResp.body
         THEN [ok |-> FALSE, status |-> 500, body |-> [error |-> <<"predictions.slice is not a function">>]]
         ELSE IF Len(backendResp.body.array) > Len(route.backendPayload)
         THEN [ok |-> FALSE, status |-> 500, body |-> [error |-> <<"Cannot read properties of undefined">>]]
         ELSE [ok |-> TRUE, status |-> 200,
               body |-> [array |-> [i \in 1..Len(backendResp.body.array) |->
                            mergedRow(backendResp.body.array[i], route.csvData,
                                      route.backendPayload, i)]]]
    /\ route' = [route EXCEPT !.pc = "idle", !.received = backendResp]
    /\ backendResp' = Null
    /\ UNCHANGED <<apiReq, backendReq, tierVars, viewVars, pageVars, formVars, handlerVars>>

(***************************************************************************)
(* The backend (FastAPI, BACKEND_URL).  Its answers are not decided by the *)
(* front end: every answer below can come back.                            *)
(***************************************************************************)
\* Three predictions the backend can return for a query: a plain one, one with
\* a warning, and an invalid one (null LogS and a warning).
PredictionSamples ==
    << [predicted_logs |-> Num(-2340), temperature_k |-> Num(298150), warning |-> Undefined],
       [predicted_logs |-> Num(500), temperature_k |-> Num(300000), warning |-> Str(<<"out of range">>)],
       [predicted_logs |-> Null, temperature_k |-> Num(-5000), warning |-> Str(<<"invalid">>)] >>

\* m predictions: the samples in turn, starting after the k-th.
Predictions(m, k) == [i \in 1..m |-> PredictionSamples[((i + k) % 3) + 1]]

\* The answers to a POST /predict of n queries: n predictions (or one fewer, or
\* one more), an error status, a body that is no array, or no answer at all.
PredictResponses(n) ==
    { [ok |-> TRUE, status |-> 200, statusText |-> "OK", body |-> [array |-> Predictions(m, k)]] :
          m \in {x \in {n - 1, n, n + 1} : x >= 0}, k \in 0..2 }
    \cup { [ok |-> FALSE, status |-> 422, statusText |-> "Unprocessable Entity", body |-> [detail |-> "invalid"]],
           [ok |-> FALSE, status |-> 500, statusText |-> "Internal Server Error", body |-> [detail |-> "error"]],
           [ok |-> TRUE, status |-> 200, statusText |-> "OK", body |-> [detail |-> "not an array"]],
           FetchFailed }

BackendPredict ==
    /\ backendReq # Null /\ backendReq.endpoint = "/predict"
    /\ backendResp' \in PredictResponses(Len(backendReq.body))
    /\ backendReq' = Null
    /\ UNCHANGED <<apiReq, apiResp, route, tierVars, viewVars, pageVars, formVars, handlerVars>>

(***************************************************************************)
(* The uploaded CSV files tried.  A file is written from a header (the     *)
(* column names, each with the kind of cell it holds) and rows of cells;   *)
(* the file keeps both next to its text so that a property can say which   *)
(* row a query or a result came from.                                      *)
(***************************************************************************)
MaxRows == 2

HeaderSamples ==
    { << [kind |-> "name", col |-> "Solute_Name"], [kind |-> "solute", col |-> "Solute_SMILES"],
         [kind |-> "solventName", col |-> "Solvent_Name"], [kind |-> "solvent", col |-> "Solvent_SMILES"],
         [kind |-> "temp", col |-> "Temperature_K"] >>,
      << [kind |-> "name", col |-> "Compound_Name"], [kind |-> "solute", col |-> "SMILES_Solute"],
         [kind |-> "solventName", col |-> "Solvent"], [kind |-> "solvent", col |-> "SMILES_Solvent"],
         [kind |-> "temp", col |-> "Temperature_K"] >>,
      << [kind |-> "solute", col |-> "solute_smiles"], [kind |-> "solvent", col |-> "solvent_smiles"],
         [kind |-> "temp", col |-> "temperature_k"], [kind |-> "name", col |-> "compound_name"] >>,
      << [kind |-> "solute", col |-> "Solute_SMILES"], [kind |-> "solvent", col |-> "Solvent_SMILES"] >> }

RowSamples ==
    << [name |-> <<"A">>, solute |-> <<"C", "C", "O">>, solventName |-> <<"W">>, solvent |-> <<"O">>,
        temp |-> <<"2", "9", "8", ".", "1", "5">>],
       [name |-> <<"B">>, solute |-> <<"C">>, solventName |-> <<>>, solvent |-> <<"C", "O">>,
        temp |-> <<"-", "5">>],
       [name |-> <<>>, solute |-> <<"O">>, solventName |-> <<"W">>, solvent |-> <<"C">>,
        temp |-> <<>>],
       [name |-> <<"A">>, solute |-> <<"C", "O">>, solventName |-> <<>>, solvent |-> <<"O">>,
        temp |-> <<"a">>],
       [name |-> <<"B">>, solute |-> <<"C", "C">>, solventName |-> <<"W">>, solvent |-> <<"C", "C", "O">>,
        temp |-> <<"0">>] >>

RECURSIVE Join(_, _)
\* The texts of a sequence joined by a separator.
Join(parts, sep) ==
    IF parts = <<>> THEN <<>>
    ELSE IF Len(parts) = 1 THEN parts[1]
    ELSE parts[1] \o <<sep>> \o Join(Tail(parts), sep)

\* The text of the CSV file with the given header and rows.
CsvText(header, rows) ==
    Join(<< Join([j \in 1..Len(header) |-> <<header[j].col>>], Comma) >>
         \o [i \in 1..Len(rows) |-> Join([j \in 1..Len(header) |-> rows[i][header[j].kind]], Comma)],
         LF)

\* n rows of the sample table, from the k-th on.
SampleRows(n, k) == [i \in 1..n |-> RowSamples[((k + i - 2) % Len(RowSamples)) + 1]]

BatchFiles ==
    { [name |-> "upload.csv", text |-> CsvText(h, SampleRows(n, k)), header |-> h, rows |-> SampleRows(n, k)] :
          h \in HeaderSamples, n \in 0..MaxRows, k \in 1..Len(RowSamples) }

(***************************************************************************)
(* Home (app/page.tsx): the callbacks handed to the forms.                 *)
(***************************************************************************)
\* handleProcess without its setResultType call.
handleProcess_ResultsOnly(data, taskType) == <<data, resultType>>

\* handleProcess(data, taskType): the new value of <<results, resultType>>.
handleProcess(data, taskType) ==
    <<data, IF taskType = "solpred" THEN "prediction" ELSE "screening">>

\* handleClearResults(): the new value of <<results, resultType>>.
handleClearResults == <<Null, "null">>

\* SolventScreening that keeps its state while the spinner is shown.
UnmountScreening_Kept == UNCHANGED viewVars

\* OutputGrid renders SolventScreening when it is not processing and holds the
\* result of a screening.
ScreeningMounted == ~isProcessing /\ results # Null /\ resultType = "screening"

\* OutputGrid renders MoleculeTable when it is not processing and holds
\* results that are not those of a screening and form a non-empty array.
TableMounted ==
    /\ ~isProcessing /\ results # Null /\ resultType # "screening"
    /\ "array" \in DOMAIN results /\ results.array # <<>>

\* OutputGrid with isProcessing true renders the spinner instead of
\* SolventScreening: the component is unmounted, its state is gone and the
\* next mount starts from the useState initial values.
UnmountScreening ==
    /\ view' = "heatmap" /\ tableMode' = "single" /\ selectedTemperature' = 300000
    /\ isEnhancedContrast' = FALSE /\ dialogOpen' = FALSE /\ selectedImage' = Null

\* useEffect(..., [results]) of SolventScreening for the result `data`:
\* setSelectedTemperature(300) when it has a ranking_temperature_k, and
\* setView("heatmap").
ResultsEffect(data) ==
    /\ selectedTemperature' = IF Has(data, "ranking_temperature_k") /\ Truthy(data.ranking_temperature_k)
                              THEN 300000 ELSE selectedTemperature
    /\ view' = "heatmap"
    /\ UNCHANGED <<tableMode, dialogVars>>

\* InputTabs renders BatchSmilesInput without an onClearResults prop, so inside
\* the batch form the callback is undefined.
onClearResultsWired == FALSE

(***************************************************************************)
(* SingleSmilesInput.handleSubmit.                                         *)
(***************************************************************************)
\* The checks without the one of the temperature.
SingleValidation_NoTemperature ==
    IF Trim(soluteSmiles) = <<>> THEN "Please enter solute SMILES"
    ELSE IF task = "solpred" /\ Trim(solventSmiles) = <<>> THEN "Please enter solvent SMILES"
    ELSE "ok"

\* The three checks before the request: the toast of the first that fails, "ok"
\* when all pass.
SingleValidation ==
    IF Trim(soluteSmiles) = <<>> THEN "Please enter solute SMILES"
    ELSE IF task = "solpred" /\ Trim(solventSmiles) = <<>> THEN "Please enter solvent SMILES"
    ELSE IF task = "solpred" /\ (parseFloatText(temperature) = NaN \/ parseFloatText(temperature).num <= 0)
    THEN "Please enter a valid temperature"
    ELSE "ok"

\* csvContent: the header line and one line of the trimmed fields.
SingleCsv ==
    <<"Compound_Name", Comma, "SMILES_Solute", Comma, "Solvent", Comma, "SMILES_Solvent", Comma,
      "Temperature_K", LF>>
    \o Trim(soluteName) \o <<Comma>> \o Trim(soluteSmiles) \o <<Comma>> \o Trim(solventName)
    \o <<Comma>> \o Trim(solventSmiles) \o <<Comma>> \o temperature

\* handleSubmit without the call onProcessingStateChange(true) before its
\* request: the button stays enabled while the request is in flight.
SingleSubmit_FlagNotSet ==
    /\ pc = NoHandler /\ call.handler = "none"
    /\ ~isProcessing
    /\ IF SingleValidation # "ok"
       THEN /\ call' = [NoCall EXCEPT !.handler = "single", !.toast = <<"error", SingleValidation>>,
                                      !.outcome = "returned"]
            /\ UNCHANGED <<pc, apiReq>>
       ELSE /\ call' = [NoCall EXCEPT !.handler = "single", !.requests = 1]
            /\ IF task = "solpred"
               THEN /\ apiReq' = [route |-> "predict",
                                  file |-> [name |-> "single_prediction.csv", text |-> SingleCsv]]
                    /\ pc' = [who |-> "single", at |-> "predict"]
               ELSE /\ apiReq' = [route |-> "solvents",
                                  body |-> [solute_smiles |-> Str(Trim(soluteSmiles)),
                                            solute_name |-> Or(Str(Trim(soluteName)), Undefined)]]
                    /\ pc' = [who |-> "single", at |-> "solvents"]
    /\ UNCHANGED <<results, resultType, isProcessing, locals, apiResp, route, backendReq, backendResp,
                   tierVars, viewVars, formVars>>

\* The click on the submit button, up to the first await.
SingleSubmit ==
    /\ pc = NoHandler /\ call.handler = "none"
    /\ ~isProcessing
    /\ IF SingleValidation # "ok"
       THEN /\ call' = [NoCall EXCEPT !.handler = "single", !.toast = <<"error", SingleValidation>>,
                                      !.outcome = "returned"]
            /\ UNCHANGED <<pc, isProcessing, apiReq, viewVars>>
       ELSE /\ isProcessing' = TRUE
            /\ UnmountScreening
            /\ call' = [NoCall EXCEPT !.handler = "single", !.processing = <<TRUE>>, !.requests = 1]
            /\ IF task = "solpred"
               THEN /\ apiReq' = [route |-> "predict",
                                  file |-> [name |-> "single_prediction.csv", text |-> SingleCsv]]
                    /\ pc' = [who |-> "single", at |-> "predict"]
               ELSE /\ apiReq' = [route |-> "solvents",
                                  body |-> [solute_smiles |-> Str(Trim(soluteSmiles)),
                                            solute_name |-> Or(Str(Trim(soluteName)), Undefined)]]
                    /\ pc' = [who |-> "single", at |-> "solvents"]
    /\ UNCHANGED <<results, resultType, locals, apiResp, route, backendReq, backendResp,
                   tierVars, formVars>>

\* The message of the Error thrown for a response that is not OK:
\* error.error || fallback.
ErrorOf(resp, fallback) ==
    IF "error" \in DOMAIN resp.body /\ resp.body.error # <<>> THEN resp.body.error ELSE <<fallback>>

\* catch and finally of handleSubmit: the error toast, then processing is off.
SingleCatch(message) ==
    /\ call' = [call EXCEPT !.toast = <<"error", "Failed to process request: ", message>>,
                            !.processing = Append(@, FALSE), !.outcome = "returned"]
    /\ isProcessing' = FALSE
    /\ pc' = NoHandler
    /\ UNCHANGED <<results, resultType>>

\* The /api/predict response arrives: a failure goes to the catch, a success
\* takes the first row and requests its structure image.
SinglePredictResponse ==
    /\ pc = [who |-> "single", at |-> "predict"]
    /\ apiResp # Null
    /\ IF Failed(apiResp) THEN SingleCatch(<<"Failed to fetch">>) /\ UNCHANGED locals
       ELSE IF ~apiResp.ok THEN SingleCatch(ErrorOf(apiResp, "Prediction failed")) /\ UNCHANGED locals
       ELSE /\ locals' = [data |-> IF apiResp.body.array = <<>> THEN <<>> ELSE <<apiResp.body.array[1]>>,
                          images |-> <<"pending">>]
            /\ pc' = [who |-> "single", at |-> "image"]
            /\ UNCHANGED <<results, resultType, isProcessing, call>>
    /\ apiResp' = Null
    /\ UNCHANGED <<apiReq, route, backendReq, backendResp, tierVars, viewVars, formVars>>

\* What a structure-image request leaves in structureImage: the image when the
\* response is OK and carries one, undefined when it is not OK or the fetch threw.
ImageOutcomes == {"ok", "notok", "throws"}
StructureImage(outcome) == IF outcome = "ok" THEN Str(<<"png">>) ELSE Undefined

\* {...row, structure_base64: structureImage}
WithImage(row, image) ==
    [f \in DOMAIN row \cup {"structure_base64"} |-> IF f = "structure_base64" THEN image ELSE row[f]]

\* The structure-image request settles: onProcess([result], task), the success
\* toast, and processing is off.
SingleImageSettle ==
    /\ pc = [who |-> "single", at |-> "image"]
    /\ \E outcome \in ImageOutcomes :
         LET prediction == IF locals.data = <<>> THEN <<>> ELSE locals.data[1]
             result == WithImage(prediction, StructureImage(outcome))
             page == handleProcess([array |-> <<result>>], task)
         IN  /\ results' = page[1]
             /\ resultType' = page[2]
             /\ locals' = [locals EXCEPT !.images = <<outcome>>]
    /\ call' = [call EXCEPT !.onProcess = @ + 1, !.toast = <<"success", "Prediction completed successfully">>,
                            !.processing = Append(@, FALSE), !.outcome = "returned"]
    /\ isProcessing' = FALSE
    /\ pc' = NoHandler
    /\ UNCHANGED <<netVars, tierVars, viewVars, formVars>>

\* The same without the check of response.ok: the body of a response that is
\* not OK is passed to onProcess, and reading data.rankings.length throws.
SingleSolventsResponse_NoOkCheck ==
    /\ pc = [who |-> "single", at |-> "solvents"]
    /\ apiResp # Null
    /\ IF Failed(apiResp) THEN SingleCatch(<<"Failed to fetch">>) /\ UNCHANGED viewVars
       ELSE LET page == handleProcess(apiResp.body, task) IN
            /\ results' = page[1]
            /\ resultType' = page[2]
            /\ call' = [call EXCEPT !.onProcess = @ + 1,
                                    !.toast = IF apiResp.ok
                                              THEN <<"success", "Analyzed solvents", Len(apiResp.body.rankings)>>
                                              ELSE <<"error", "Failed to process request: ">>,
                                    !.processing = Append(@, FALSE), !.outcome = "returned"]
            /\ isProcessing' = FALSE
            /\ pc' = NoHandler
            /\ ResultsEffect(apiResp.body)
    /\ apiResp' = Null
    /\ UNCHANGED <<locals, apiReq, route, backendReq, backendResp, tierVars, formVars>>

\* The /api/solvents response arrives at the single form.
SingleSolventsResponse ==
    /\ pc = [who |-> "single", at |-> "solvents"]
    /\ apiResp # Null
    /\ IF Failed(apiResp) THEN SingleCatch(<<"Failed to fetch">>) /\ UNCHANGED viewVars
       ELSE IF ~apiResp.ok THEN SingleCatch(ErrorOf(apiResp, "Solvent screening failed")) /\ UNCHANGED viewVars
       ELSE LET page == handleProcess(apiResp.body, task) IN
            /\ results' = page[1]
            /\ resultType' = page[2]
            /\ call' = [call EXCEPT !.onProcess = @ + 1,
                                    !.toast = <<"success", "Analyzed solvents", Len(apiResp.body.rankings)>>,
                                    !.processing = Append(@, FALSE), !.outcome = "returned"]
            /\ isProcessing' = FALSE
            /\ pc' = NoHandler
            /\ ResultsEffect(apiResp.body)
    /\ apiResp' = Null
    /\ UNCHANGED <<locals, apiReq, route, backendReq, backendResp, tierVars, formVars>>

\* rowData read from the last line of the file instead of the second.
BatchRowData_LastRow(text) ==
    CHOOSE rowData \in
        { [h \in {headers[j] : j \in 1..Len(headers)} |->
              LET last == CHOOSE j \in 1..Len(headers) :
                              headers[j] = h /\ \A k \in 1..Len(headers) : headers[k] = h => k <= j
              IN  IF last <= Len(firstRow) THEN firstRow[last] ELSE <<>>] :
          headers \in {TrimmedValues(Split(Trim(text), LF)[1])},
          firstRow \in {TrimmedValues(Split(Trim(text), LF)[Len(Split(Trim(text), LF))])} } : TRUE

(***************************************************************************)
(* BatchSmilesInput.handleProcess.                                         *)
(***************************************************************************)
\* rowData of the solvent-screening branch: the first data line of the file
\* keyed by the header line, both split at commas and trimmed
\* (rowData[header] = firstRow[index] || "").
BatchRowData(text) ==
    CHOOSE rowData \in
        { [h \in {headers[j] : j \in 1..Len(headers)} |->
              LET last == CHOOSE j \in 1..Len(headers) :
                              headers[j] = h /\ \A k \in 1..Len(headers) : headers[k] = h => k <= j
              IN  IF last <= Len(firstRow) THEN firstRow[last] ELSE <<>>] :
          headers \in {TrimmedValues(Split(Trim(text), LF)[1])},
          firstRow \in {TrimmedValues(Split(Trim(text), LF)[2])} } : TRUE

\* The solute of the screening request: [smiles, name], or the message of the
\* Error thrown before any request.
BatchSolute(text) ==
    IF Len(Split(Trim(text), LF)) < 2
    THEN [error |-> <<"CSV file must have at least one data row">>]
    ELSE LET rowData == BatchRowData(text)
             smiles == Or(Or(Field(rowData, "Solute_SMILES"), Field(rowData, "solute_smiles")),
                          Field(rowData, "SMILES_Solute"))
             name == Or(Or(Or(Field(rowData, "Solute_Name"), Field(rowData, "solute_name")),
                           Field(rowData, "Compound_Name")), Undefined)
         IN  IF ~Truthy(smiles)
             THEN [error |-> <<"CSV must contain a column named 'Solute_SMILES', 'solute_smiles', or 'SMILES_Solute'">>]
             ELSE [solute_smiles |-> smiles, solute_name |-> name]

\* The catch block of a handler that resets the processing flag after the
\* catch instead of in a finally: an Error thrown by the catch block skips it.
BatchCatch_NoFinally(message) ==
    /\ IF onClearResultsWired
       THEN /\ results' = handleClearResults[1]
            /\ resultType' = handleClearResults[2]
            /\ call' = [call EXCEPT !.toast = <<"error", "Error: ", message>>,
                                    !.processing = Append(@, FALSE), !.outcome = "returned"]
            /\ isProcessing' = FALSE
       ELSE /\ call' = [call EXCEPT !.outcome = "rejected"]
            /\ UNCHANGED <<results, resultType, isProcessing>>
    /\ pc' = NoHandler

\* catch and finally of handleProcess.  The catch calls onClearResults() first:
\* when the prop is wired the results are cleared and the error toast is shown;
\* when it is undefined the call itself throws, no toast is shown and the
\* handler's promise rejects.  The finally turns processing off either way.
BatchCatch(message) ==
    /\ IF onClearResultsWired
       THEN /\ results' = handleClearResults[1]
            /\ resultType' = handleClearResults[2]
            /\ call' = [call EXCEPT !.toast = <<"error", "Error: ", message>>,
                                    !.processing = Append(@, FALSE), !.outcome = "returned"]
       ELSE /\ call' = [call EXCEPT !.processing = Append(@, FALSE), !.outcome = "rejected"]
            /\ UNCHANGED <<results, resultType>>
    /\ isProcessing' = FALSE
    /\ pc' = NoHandler

\* The click on the process button, up to the first await: the text of the file
\* (solvent screening) or the /api/predict request (prediction).
BatchProcess ==
    /\ pc = NoHandler /\ call.handler = "none"
    /\ ~isProcessing /\ file # Null
    /\ isProcessing' = TRUE
    /\ UnmountScreening
    /\ IF task = "solscreen"
       THEN /\ pc' = [who |-> "batch", at |-> "text"]
            /\ call' = [NoCall EXCEPT !.handler = "batch", !.processing = <<TRUE>>]
            /\ UNCHANGED apiReq
       ELSE /\ apiReq' = [route |-> "predict", file |-> file]
            /\ pc' = [who |-> "batch", at |-> "predict"]
            /\ call' = [NoCall EXCEPT !.handler = "batch", !.processing = <<TRUE>>, !.requests = 1]
    /\ UNCHANGED <<results, resultType, locals, apiResp, route, backendReq, backendResp,
                   tierVars, formVars>>

\* The text of the file is there: its first data row is read and the
\* /api/solvents request is issued, or an Error is thrown before any request.
BatchFileText ==
    /\ pc = [who |-> "batch", at |-> "text"]
    /\ \E solute \in {BatchSolute(file.text)} :
         IF "error" \in DOMAIN solute
         THEN BatchCatch(solute.error) /\ UNCHANGED apiReq
         ELSE /\ apiReq' = [route |-> "solvents", body |-> solute]
              /\ pc' = [who |-> "batch", at |-> "solvents"]
              /\ call' = [call EXCEPT !.requests = @ + 1]
              /\ UNCHANGED <<results, resultType, isProcessing>>
    /\ UNCHANGED <<locals, apiResp, route, backendReq, backendResp, tierVars, viewVars, formVars>>

\* The /api/solvents response arrives at the batch form.
BatchSolventsResponse ==
    /\ pc = [who |-> "batch", at |-> "solvents"]
    /\ apiResp # Null
    /\ IF Failed(apiResp) THEN BatchCatch(<<"Failed to fetch">>) /\ UNCHANGED viewVars
       ELSE IF ~apiResp.ok THEN BatchCatch(ErrorOf(apiResp, "Solvent screening failed")) /\ UNCHANGED viewVars
       ELSE LET page == handleProcess(apiResp.body, task) IN
            /\ results' = page[1]
            /\ resultType' = page[2]
            /\ call' = [call EXCEPT !.onProcess = @ + 1,
                                    !.toast = <<"success", "Analyzed solvents", Len(apiResp.body.rankings)>>,
                                    !.processing = Append(@, FALSE), !.outcome = "returned"]
            /\ isProcessing' = FALSE
            /\ pc' = NoHandler
            /\ ResultsEffect(apiResp.body)
    /\ apiResp' = Null
    /\ UNCHANGED <<locals, apiReq, route, backendReq, backendResp, tierVars, formVars>>

\* The /api/predict response arrives at the batch form: on success one
\* structure-image request is started per row (Promise.all over data.map).
BatchPredictResponse ==
    /\ pc = [who |-> "batch", at |-> "predict"]
    /\ apiResp # Null
    /\ IF Failed(apiResp) THEN BatchCatch(<<"Failed to fetch">>) /\ UNCHANGED locals
       ELSE IF ~apiResp.ok THEN BatchCatch(ErrorOf(apiResp, "Processing failed")) /\ UNCHANGED locals
       ELSE /\ locals' = [data |-> apiResp.body.array,
                          images |-> [i \in 1..Len(apiResp.body.array) |-> "pending"]]
            /\ pc' = [who |-> "batch", at |-> "images"]
            /\ UNCHANGED <<results, resultType, isProcessing, call>>
    /\ apiResp' = Null
    /\ UNCHANGED <<apiReq, route, backendReq, backendResp, tierVars, viewVars, formVars>>

\* Image requests without their own try/catch: one that throws rejects
\* Promise.all and the handler goes to its catch block.
BatchImageSettle_Rejects ==
    /\ pc = [who |-> "batch", at |-> "images"]
    /\ \E i \in 1..Len(locals.images), outcome \in ImageOutcomes :
         /\ locals.images[i] = "pending"
         /\ locals' = [locals EXCEPT !.images[i] = outcome]
         /\ IF outcome = "throws"
            THEN BatchCatch(<<"Failed to fetch">>)
            ELSE UNCHANGED <<pc, call, pageVars>>
    /\ UNCHANGED <<netVars, tierVars, viewVars, formVars>>

\* One of the pending structure-image requests settles, in any order.
BatchImageSettle ==
    /\ pc = [who |-> "batch", at |-> "images"]
    /\ \E i \in 1..Len(locals.images), outcome \in ImageOutcomes :
         /\ locals.images[i] = "pending"
         /\ locals' = [locals EXCEPT !.images[i] = outcome]
    /\ UNCHANGED <<pc, call, netVars, tierVars, viewVars, pageVars, formVars>>

\* Promise.all resolves once every image request has settled:
\* onProcess(resultsWithImages, task), the success toast, processing off.
BatchImagesDone ==
    /\ pc = [who |-> "batch", at |-> "images"]
    /\ \A i \in 1..Len(locals.images) : locals.images[i] # "pending"
    /\ LET resultsWithImages == [i \in 1..Len(locals.data) |->
                                    WithImage(locals.data[i], StructureImage(locals.images[i]))]
           page == handleProcess([array |-> resultsWithImages], task)
       IN  /\ results' = page[1]
           /\ resultType' = page[2]
           /\ call' = [call EXCEPT !.onProcess = @ + 1,
                                   !.toast = <<"success", "Processed compounds", Len(resultsWithImages)>>,
                                   !.processing = Append(@, FALSE), !.outcome = "returned"]
    /\ isProcessing' = FALSE
    /\ pc' = NoHandler
    /\ UNCHANGED <<locals, netVars, tierVars, viewVars, formVars>>

\* The browser's fetch of a route rejects (the server cannot be reached).
ApiFetchFails ==
    /\ apiReq # Null /\ apiResp = Null
    /\ apiReq' = Null
    /\ apiResp' = FetchFailed
    /\ UNCHANGED <<route, backendReq, backendResp, tierVars, viewVars, pageVars, formVars, handlerVars>>

(***************************************************************************)
(* POST /api/solvents and the backend's /solvents.                         *)
(***************************************************************************)
\* The route without the check of solute_smiles: every JSON body is posted to
\* the backend.
RouteSolventsStart_NoSoluteCheck ==
    /\ apiReq # Null /\ apiReq.route = "solvents"
    /\ route.pc = "idle"
    /\ IF "malformed" \in DOMAIN apiReq.body
       THEN /\ apiResp' = [ok |-> FALSE, status |-> 500, body |-> [error |-> <<"Unexpected token">>]]
            /\ route' = [RouteIdle EXCEPT !.name = "solvents", !.request = apiReq.body]
            /\ UNCHANGED backendReq
       ELSE /\ route' = [RouteIdle EXCEPT !.pc = "awaitBackend", !.name = "solvents", !.fetches = 1,
                                         !.request = apiReq.body,
                                         !.sent = [solute_smiles |-> apiReq.body.solute_smiles,
                                                   solute_name |-> Or(apiReq.body.solute_name, Null)]]
            /\ backendReq' = [endpoint |-> "/solvents",
                              body |-> [solute_smiles |-> apiReq.body.solute_smiles,
                                        solute_name |-> Or(apiReq.body.solute_name, Null)]]
            /\ UNCHANGED apiResp
    /\ apiReq' = Null
    /\ UNCHANGED <<backendResp, tierVars, viewVars, pageVars, formVars, handlerVars>>

\* The route up to its fetch of the backend: 500 when the request body is no
\* JSON object (request.json() or the destructuring throws), 400 without a
\* solute_smiles, else the body is posted to BACKEND_URL/solvents
\* (solute_name || null).
RouteSolventsStart ==
    /\ apiReq # Null /\ apiReq.route = "solvents"
    /\ route.pc = "idle"
    /\ IF "malformed" \in DOMAIN apiReq.body
       THEN /\ apiResp' = [ok |-> FALSE, status |-> 500, body |-> [error |-> <<"Unexpected token">>]]
            /\ route' = [RouteIdle EXCEPT !.name = "solvents", !.request = apiReq.body]
            /\ UNCHANGED backendReq
       ELSE IF ~Truthy(apiReq.body.solute_smiles)
       THEN /\ apiResp' = [ok |-> FALSE, status |-> 400, body |-> [error |-> <<"No solute SMILES provided">>]]
            /\ route' = [RouteIdle EXCEPT !.name = "solvents", !.request = apiReq.body]
            /\ UNCHANGED backendReq
       ELSE /\ route' = [RouteIdle EXCEPT !.pc = "awaitBackend", !.name = "solvents", !.fetches = 1,
                                         !.request = apiReq.body,
                                         !.sent = [solute_smiles |-> apiReq.body.solute_smiles,
                                                   solute_name |-> Or(apiReq.body.solute_name, Null)]]
            /\ backendReq' = [endpoint |-> "/solvents",
                              body |-> [solute_smiles |-> apiReq.body.solute_smiles,
                                        solute_name |-> Or(apiReq.body.solute_name, Null)]]
            /\ UNCHANGED apiResp
    /\ apiReq' = Null
    /\ UNCHANGED <<backendResp, tierVars, viewVars, pageVars, formVars, handlerVars>>

\* A response whose body is no JSON: response.json() throws.
NotJson(resp) == "notJson" \in DOMAIN resp.body

\* The route that fetches the backend a second time when its first fetch threw
\* or was answered with a status that is not OK.
RouteSolventsFinish_Retry ==
    /\ route.pc = "awaitBackend" /\ route.name = "solvents"
    /\ backendResp # Null
    /\ IF (Failed(backendResp) \/ ~backendResp.ok) /\ route.fetches < 2
       THEN /\ backendReq' = [endpoint |-> "/solvents", body |-> route.sent]
            /\ route' = [route EXCEPT !.fetches = @ + 1]
            /\ UNCHANGED apiResp
       ELSE /\ apiResp' =
                 IF Failed(backendResp)
                 THEN [ok |-> FALSE, status |-> 500, body |-> [error |-> <<"fetch failed">>]]
                 ELSE IF ~backendResp.ok
                 THEN [ok |-> FALSE, status |-> backendResp.status,
                       body |-> [error |-> <<"Backend error: ", backendResp.statusText>>]]
                 ELSE IF NotJson(backendResp)
                 THEN [ok |-> FALSE, status |-> 500, body |-> [error |-> <<"Unexpected token">>]]
                 ELSE [ok |-> TRUE, status |-> 200, body |-> backendResp.body]
            /\ route' = [route EXCEPT !.pc = "idle", !.received = backendResp]
            /\ UNCHANGED backendReq
    /\ backendResp' = Null
    /\ UNCHANGED <<apiReq, tierVars, viewVars, pageVars, formVars, handlerVars>>

\* The route after its fetch of the backend settled: 500 when the fetch threw,
\* the backend's status with an error body when it is not OK, else its JSON body.
RouteSolventsFinish ==
    /\ route.pc = "awaitBackend" /\ route.name = "solvents"
    /\ backendResp # Null
    /\ apiResp' =
         IF Failed(backendResp)
         THEN [ok |-> FALSE, status |-> 500, body |-> [error |-> <<"fetch failed">>]]
         ELSE IF ~backendResp.ok
         THEN [ok |-> FALSE, status |-> backendResp.status,
               body |-> [error |-> <<"Backend error: ", backendResp.statusText>>]]
         ELSE IF NotJson(backendResp)
         THEN [ok |-> FALSE, status |-> 500, body |-> [error |-> <<"Unexpected token">>]]
         ELSE [ok |-> TRUE, status |-> 200, body |-> backendResp.body]
    /\ route' = [route EXCEPT !.pc = "idle", !.received = backendResp]
    /\ backendResp' = Null
    /\ UNCHANGED <<apiReq, backendReq, tierVars, viewVars, pageVars, formVars, handlerVars>>

\* Names and SMILES of solvents of the panel, as texts.
Water == <<"W", "a", "t", "e", "r">>
Ethanol == <<"E", "t", "h", "a", "n", "o", "l">>
Acetone == <<"A", "c", "e", "t", "o", "n", "e">>
Hexane == <<"H", "e", "x", "a", "n", "e">>
DMSO == <<"D", "M", "S", "O">>

\* Two screening results the backend can return: rankings at 300 K and the two
\* heatmap images, the second with heatmap_data.
AnalysisSamples ==
    { [ solute_smiles |-> Str(<<"C", "C", "O">>), solute_name |-> Str(<<"A">>),
        ranking_temperature_k |-> Num(300000),
        rankings |-> << [rank |-> 1, solvent_name |-> Water, solvent_smiles |-> <<"O">>, predicted_logs |-> 600],
                        [rank |-> 2, solvent_name |-> Ethanol, solvent_smiles |-> <<"C", "C", "O">>, predicted_logs |-> -1200] >>,
        static_heatmap_base64 |-> "static-1", dynamic_heatmap_base64 |-> "dynamic-1" ],
      [ solute_smiles |-> Str(<<"C">>), solute_name |-> Null,
        ranking_temperature_k |-> Num(300000),
        rankings |-> << [rank |-> 1, solvent_name |-> Ethanol, solvent_smiles |-> <<"C", "C", "O">>, predicted_logs |-> -3100] >>,
        heatmap_data |-> << [solvent |-> Ethanol,
                             cells |-> << [key |-> <<"3", "0", "0">>, value |-> Num(-3100)],
                                          [key |-> <<"3", "1", "0">>, value |-> Num(-2900)] >>] >>,
        static_heatmap_base64 |-> "static-2", dynamic_heatmap_base64 |-> "dynamic-2" ] }

\* The answers to a POST /solvents: a screening result, an error status (an
\* invalid solute, a server error), a body that is no JSON, or no answer at all.
SolventsResponses ==
    { [ok |-> TRUE, status |-> 200, statusText |-> "OK", body |-> a] : a \in AnalysisSamples }
    \cup { [ok |-> FALSE, status |-> 400, statusText |-> "Bad Request", body |-> [detail |-> "invalid SMILES"]],
           [ok |-> FALSE, status |-> 500, statusText |-> "Internal Server Error", body |-> [detail |-> "error"]],
           [ok |-> TRUE, status |-> 200, statusText |-> "OK", body |-> [notJson |-> TRUE]],
           FetchFailed }

BackendSolvents ==
    /\ backendReq # Null /\ backendReq.endpoint = "/solvents"
    /\ backendResp' \in SolventsResponses
    /\ backendReq' = Null
    /\ UNCHANGED <<apiReq, apiResp, route, tierVars, viewVars, pageVars, formVars, handlerVars>>

(***************************************************************************)
(* Spec: one click on a submit button, from the click to the end of the    *)
(* handler, with the route and the backend in between.  The page starts    *)
(* empty or with the results an earlier successful call left; the form     *)
(* that is used holds one of the inputs below.                             *)
(***************************************************************************)
NameSamples == {<<>>, <<"A">>, <<Space, "B", Space>>}
SoluteSamples == {<<>>, <<Space>>, <<"C", "C", "O">>, <<Space, "C", Space>>}
SolventSamples == {<<>>, <<"O">>}
SolventNameSamples == {<<>>, <<"W">>}
TemperatureSamples ==
    {<<>>, <<"0">>, <<"-", "5">>, <<"a">>, <<"3", "0", "0">>, <<"2", "9", "8", ".", "1", "5">>}

\* results and resultType as an earlier call can have left them.
PriorPages ==
    { <<Null, "null">>,
      <<[array |-> << WithImage(mergedRow(PredictionSamples[1], <<>>,
                                          <<[solute_smiles |-> Str(<<"C">>), solvent_smiles |-> Str(<<"O">>),
                                             temperature_k |-> Num(300000)]>>, 1), Undefined) >>],
        "prediction">> }
    \cup { <<a, "screening">> : a \in AnalysisSamples }

Init ==
    /\ logS = 0 /\ shown = NoValue /\ sheet = Null
    /\ \E page \in PriorPages : results = page[1] /\ resultType = page[2]
    /\ isProcessing = FALSE
    /\ HandlerIdle /\ NetIdle /\ ScreeningInitial
    /\ task \in {"solpred", "solscreen"}
    /\ \/ /\ file = Null
          /\ soluteName \in NameSamples /\ soluteSmiles \in SoluteSamples
          /\ solventSmiles \in SolventSamples /\ solventName \in SolventNameSamples
          /\ temperature \in TemperatureSamples
       \/ /\ file \in BatchFiles
          /\ FormEmpty
    /\ FileInitial

Next ==
    \/ SingleSubmit
    \/ SinglePredictResponse
    \/ SingleImageSettle
    \/ SingleSolventsResponse
    \/ BatchProcess
    \/ BatchFileText
    \/ BatchSolventsResponse
    \/ BatchPredictResponse
    \/ BatchImageSettle
    \/ BatchImagesDone
    \/ ApiFetchFails
    \/ RoutePredictStart
    \/ BackendPredict
    \/ RoutePredictFinish
    \/ RouteSolventsStart
    \/ BackendSolvents
    \/ RouteSolventsFinish

Spec == Init /\ [][Next]_vars

\* Every step but the user's clicks: a request in flight settles, a route or
\* the backend answers, a handler runs on after its await.
Settle ==
    \/ SinglePredictResponse
    \/ SingleImageSettle
    \/ SingleSolventsResponse
    \/ BatchFileText
    \/ BatchSolventsResponse
    \/ BatchPredictResponse
    \/ BatchImageSettle
    \/ BatchImagesDone
    \/ ApiFetchFails
    \/ RoutePredictStart
    \/ BackendPredict
    \/ RoutePredictFinish
    \/ RouteSolventsStart
    \/ BackendSolvents
    \/ RouteSolventsFinish

\* SpecLive: one submit from the empty page, of a valid or an empty single
\* form or of a file of 0..MaxRows rows, in behaviours in which what is in
\* flight settles.
InitLive ==
    /\ logS = 0 /\ shown = NoValue /\ sheet = Null
    /\ AppIdle
    /\ task \in {"solpred", "solscreen"}
    /\ \/ /\ file = Null
          /\ soluteName = <<"A">> /\ soluteSmiles \in {<<>>, <<"C", "C", "O">>}
          /\ solventSmiles = <<"O">> /\ solventName = <<>>
          /\ temperature = <<"3", "0", "0">>
       \/ /\ file \in {f \in BatchFiles : Len(f.header) = 2 /\ (f.rows = <<>> \/ f.rows[1] = RowSamples[1])}
          /\ FormEmpty
    /\ FileInitial

SpecLive == InitLive /\ [][Next]_vars /\ WF_vars(Settle)

\* The user clicks a submit button again after a handler ended: the record of
\* the ended invocation makes room for the next one.
NextClick ==
    /\ pc = NoHandler /\ call.handler # "none"
    /\ call' = NoCall
    /\ route' = RouteIdle
    /\ UNCHANGED <<locals, pc, apiReq, apiResp, backendReq, backendResp,
                   tierVars, viewVars, pageVars, formVars>>

\* One submit after the other, from either form.
NextClicks == Next \/ NextClick
SpecClicks == InitLive /\ [][NextClicks]_vars

\* A child of Home calls the onClearResults prop: handleClearResults().  With
\* no results OutputGrid renders the empty state, so SolventScreening is
\* unmounted.
ClearResults ==
    /\ results' = handleClearResults[1]
    /\ resultType' = handleClearResults[2]
    /\ UnmountScreening
    /\ UNCHANGED <<isProcessing, tierVars, formVars, handlerVars, netVars>>

\* Home under any sequence of calls of its two callbacks: the submits of the
\* forms, and onClearResults at any moment.
NextHome == NextClicks \/ ClearResults
SpecHome == InitLive /\ [][NextHome]_vars

(***************************************************************************)
(* SpecRoundTrip: one submit of the single form in solpred mode with names *)
(* that hold the characters CSV gives a meaning to, from the click through *)
(* /api/predict to the row passed to onProcess.                            *)
(***************************************************************************)
\* Names as the user can type or paste them: plain, with a comma, with a
\* leading quote, with a line break.
SpecialNameSamples ==
    {<<"A">>, <<"A", Comma, "B">>, <<Quote, "A">>, <<"A", LF, "B">>, <<Space, "A", Space>>}

InitRoundTrip ==
    /\ logS = 0 /\ shown = NoValue /\ sheet = Null
    /\ AppIdle
    /\ task = "solpred" /\ file = Null
    /\ soluteName \in SpecialNameSamples \cup {<<>>}
    /\ solventName \in SpecialNameSamples \cup {<<>>}
    /\ soluteSmiles \in {<<"C", "C", "O">>, <<Space, "C", Space>>}
    /\ solventSmiles = <<"O">>
    /\ temperature \in {<<"3", "0", "0">>, <<"2", "9", "8", ".", "1", "5">>}
    /\ FileInitial

NextRoundTrip ==
    \/ SingleSubmit
    \/ ApiFetchFails
    \/ RoutePredictStart
    \/ BackendPredict
    \/ RoutePredictFinish
    \/ SinglePredictResponse
    \/ SingleImageSettle

SpecRoundTrip == InitRoundTrip /\ [][NextRoundTrip]_vars

(***************************************************************************)
(* SpecBatchScreen: one click on the process button of the batch form in   *)
(* solscreen mode, with files whose first row has a solute, has none, or   *)
(* names it in more than one column.                                       *)
(***************************************************************************)
ScreeningHeaders ==
    { << [kind |-> "name", col |-> "Solute_Name"], [kind |-> "solute", col |-> "Solute_SMILES"] >>,
      << [kind |-> "solute", col |-> "SMILES_Solute"], [kind |-> "name", col |-> "Compound_Name"] >>,
      << [kind |-> "other", col |-> "solute_smiles"], [kind |-> "solute", col |-> "Solute_SMILES"],
         [kind |-> "name", col |-> "solute_name"] >>,
      << [kind |-> "other", col |-> "SMILES_Solute"], [kind |-> "solute", col |-> "solute_smiles"] >>,
      << [kind |-> "name", col |-> "Compound_Name"], [kind |-> "other", col |-> "Solvent_SMILES"] >> }

ScreeningRows ==
    << [name |-> <<"A">>, solute |-> <<"C", "C", "O">>, other |-> <<"O">>],
       [name |-> <<"B">>, solute |-> <<>>, other |-> <<"C">>],
       [name |-> <<>>, solute |-> <<Space>>, other |-> <<>>],
       [name |-> <<Space, "A">>, solute |-> <<"C", Space>>, other |-> <<"C", "C">>] >>

ScreeningFiles ==
    { [name |-> "upload.csv", text |-> CsvText(h, rows), header |-> h, rows |-> rows] :
          h \in ScreeningHeaders,
          rows \in { [i \in 1..n |-> ScreeningRows[((k + i - 2) % Len(ScreeningRows)) + 1]] :
                       n \in 0..MaxRows, k \in 1..Len(ScreeningRows) } }

InitBatchScreen ==
    /\ logS = 0 /\ shown = NoValue /\ sheet = Null
    /\ AppIdle
    /\ task = "solscreen"
    /\ file \in ScreeningFiles
    /\ FormEmpty
    /\ FileInitial

NextBatchScreen ==
    \/ BatchProcess
    \/ BatchFileText
    \/ BatchSolventsResponse
    \/ ApiFetchFails
    \/ RouteSolventsStart
    \/ BackendSolvents
    \/ RouteSolventsFinish

SpecBatchScreen == InitBatchScreen /\ [][NextBatchScreen]_vars

(***************************************************************************)
(* SpecBatchFile: the file of the batch form.  The user clicks Try sample  *)
(* (or Clear sample), picks files and the parent raises clearTrigger, in   *)
(* any order; the fetch of a sample file ends at any later moment.         *)
(***************************************************************************)
\* The number of sample fetches that can be pending at once, and the number
\* of times the parent raises clearTrigger.
MaxSampleLoads == 2
MaxClearTrigger == 2

\* sampleFileName
sampleFileName(t) == IF t = "solpred" THEN "solpred_sample.csv" ELSE "solscreen_sample.csv"

\* new File([blob], sampleFileName): the sample file served from the public
\* folder, here a table of one row.
SampleFile(name) ==
    [name |-> name,
     text |-> CsvText(<< [kind |-> "solute", col |-> "Solute_SMILES"],
                         [kind |-> "solvent", col |-> "Solvent_SMILES"] >>, SampleRows(1, 1)),
     header |-> << [kind |-> "solute", col |-> "Solute_SMILES"],
                   [kind |-> "solvent", col |-> "Solvent_SMILES"] >>,
     rows |-> SampleRows(1, 1)]

\* handleFileChange that leaves hasSample as it is.
handleFileChange_KeepsSample ==
    /\ ~isProcessing
    /\ \E selectedFile \in {f \in BatchFiles : Len(f.rows) = 1} \cup {Undefined} :
         IF selectedFile # Undefined
         THEN /\ file' = selectedFile
              /\ fileName' = selectedFile.name
              /\ UNCHANGED hasSample
         ELSE UNCHANGED <<file, fileName, hasSample>>
    /\ UNCHANGED <<sampleLoads, clearTrigger, singleFormVars, tierVars, pageVars, handlerVars, netVars, viewVars>>

\* handleTrySample up to its await: with a sample loaded the file is cleared,
\* otherwise the sample file of the task is fetched.
handleTrySample ==
    /\ IF hasSample
       THEN /\ file' = Null /\ fileName' = "" /\ hasSample' = FALSE
            /\ UNCHANGED sampleLoads
       ELSE /\ Len(sampleLoads) < MaxSampleLoads
            /\ sampleLoads' = Append(sampleLoads, sampleFileName(task))
            /\ UNCHANGED <<file, fileName, hasSample>>
    /\ UNCHANGED <<clearTrigger, singleFormVars, tierVars, pageVars, handlerVars, netVars, viewVars>>

\* The fetch of a sample file ends, the pending ones in any order: with an OK
\* response the file is set with its name and hasSample, otherwise (a
\* response that is not OK, a fetch that throws) only the error toast is shown.
SampleFetched ==
    /\ \E i \in 1..Len(sampleLoads), ok \in BOOLEAN :
         /\ sampleLoads' = Sub(sampleLoads, 1, i - 1) \o Sub(sampleLoads, i + 1, Len(sampleLoads))
         /\ IF ok
            THEN /\ file' = SampleFile(sampleLoads[i])
                 /\ fileName' = SampleFile(sampleLoads[i]).name
                 /\ hasSample' = TRUE
            ELSE UNCHANGED <<file, fileName, hasSample>>
    /\ UNCHANGED <<clearTrigger, singleFormVars, tierVars, pageVars, handlerVars, netVars, viewVars>>

\* handleFileChange: the file input (disabled while processing) reports the
\* file the user picked, or none when the dialog was cancelled.
handleFileChange ==
    /\ ~isProcessing
    /\ \E selectedFile \in {f \in BatchFiles : Len(f.rows) = 1} \cup {Undefined} :
         IF selectedFile # Undefined
         THEN /\ file' = selectedFile
              /\ fileName' = selectedFile.name
              /\ hasSample' = FALSE
         ELSE UNCHANGED <<file, fileName, hasSample>>
    /\ UNCHANGED <<sampleLoads, clearTrigger, singleFormVars, tierVars, pageVars, handlerVars, netVars, viewVars>>

\* The parent raises clearTrigger and useEffect(..., [clearTrigger]) runs:
\* the new value is above 0, so the file is cleared.
ClearTriggerEffect ==
    /\ clearTrigger < MaxClearTrigger
    /\ clearTrigger' = clearTrigger + 1
    /\ IF clearTrigger' > 0
       THEN file' = Null /\ fileName' = "" /\ hasSample' = FALSE
       ELSE UNCHANGED <<file, fileName, hasSample>>
    /\ UNCHANGED <<sampleLoads, singleFormVars, tierVars, pageVars, handlerVars, netVars, viewVars>>

InitBatchFile ==
    /\ logS = 0 /\ shown = NoValue /\ sheet = Null
    /\ AppIdle
    /\ task \in {"solpred", "solscreen"}
    /\ file = Null
    /\ FormEmpty
    /\ FileInitial

NextBatchFile ==
    \/ handleTrySample
    \/ SampleFetched
    \/ handleFileChange
    \/ ClearTriggerEffect

SpecBatchFile == InitBatchFile /\ [][NextBatchFile]_vars

(***************************************************************************)
(* SpecSolventsRoute: one POST to /api/solvents from any HTTP client, from *)
(* the request to the route's answer.                                      *)
(***************************************************************************)
\* The values of a field of the JSON body: absent, null, empty, or a text.
SoluteFieldSamples ==
    {Undefined, Null, Str(<<>>), Str(<<Space>>), Str(<<"C">>), Str(<<"C", "C", "O">>)}
NameFieldSamples == {Undefined, Null, Str(<<>>), Str(<<"A">>)}

\* The bodies a client can post: a JSON object with the two fields, or text
\* that is no JSON.
DirectSolventsBodies ==
    { [solute_smiles |-> s, solute_name |-> n] : s \in SoluteFieldSamples, n \in NameFieldSamples }
    \cup { [malformed |-> TRUE] }

InitSolventsRoute ==
    /\ logS = 0 /\ shown = NoValue /\ sheet = Null
    /\ PageInitial /\ HandlerIdle /\ ScreeningInitial
    /\ task = "solscreen" /\ FormEmpty /\ file = Null
    /\ \E body \in DirectSolventsBodies : apiReq = [route |-> "solvents", body |-> body]
    /\ apiResp = Null /\ route = RouteIdle
    /\ backendReq = Null /\ backendResp = Null
    /\ FileInitial

NextSolventsRoute ==
    \/ RouteSolventsStart
    \/ BackendSolvents
    \/ RouteSolventsFinish

SpecSolventsRoute == InitSolventsRoute /\ [][NextSolventsRoute]_vars

(***************************************************************************)
(* SolventScreening (view-toggle.tsx): the single-temperature ranking.     *)
(*                                                                         *)
(* A row of heatmap_data is [solvent |-> text, cells |-> the other         *)
(* properties of the object, each [key |-> text, value |-> a value]].      *)
(***************************************************************************)
UpperChars == <<"A", "B", "C", "D", "E", "F", "G", "H", "I", "J", "K", "L", "M",
                "N", "O", "P", "Q", "R", "S", "T", "U", "V", "W", "X", "Y", "Z">>
LowerChars == <<"a", "b", "c", "d", "e", "f", "g", "h", "i", "j", "k", "l", "m",
                "n", "o", "p", "q", "r", "s", "t", "u", "v", "w", "x", "y", "z">>

\* String.prototype.toLowerCase, character by character.
toLowerCase(s) ==
    [i \in 1..Len(s) |->
        IF \E k \in 1..26 : UpperChars[k] = s[i]
        THEN LowerChars[CHOOSE k \in 1..26 : UpperChars[k] = s[i]]
        ELSE s[i]]

RECURSIVE WhiteRun(_, _)
\* The number of white-space characters of s from position i on.
WhiteRun(s, i) == IF i <= Len(s) /\ IsWhite(s[i]) THEN 1 + WhiteRun(s, i + 1) ELSE 0

RECURSIVE DropParenthesised(_, _)
\* s.replace(/\s*\(.*?\)\s*/g, "") from position i on: white space, "(", the
\* shortest text up to a ")", and white space are removed wherever they match.
DropParenthesised(s, i) ==
    IF i > Len(s) THEN <<>>
    ELSE LET open == i + WhiteRun(s, i)
             close == IF open <= Len(s) /\ s[open] = "(" THEN IndexFrom(s, ")", open + 1) ELSE 0
         IN  IF close # 0
             THEN DropParenthesised(s, close + 1 + WhiteRun(s, close + 1))
             ELSE <<s[i]>> \o DropParenthesised(s, i + 1)

IsAlnum(c) == IsDigit(c) \/ \E k \in 1..26 : LowerChars[k] = c

\* normalizeSolventName(name)
normalizeSolventName(name) ==
    Trim(SelectSeq(DropParenthesised(toLowerCase(name), 1), IsAlnum))

\* Number(text): the whole trimmed text has to be a number; "" is 0.
NumberOf(t) ==
    LET s == Trim(t)
        i0 == IF s # <<>> /\ s[1] \in {"-", "+"} THEN 2 ELSE 1
        ni == DigitRun(s, i0)
        dot == (i0 + ni <= Len(s)) /\ s[i0 + ni] = "."
        nf == IF dot THEN DigitRun(s, i0 + ni + 1) ELSE 0
        read == (i0 - 1) + ni + (IF dot THEN 1 + nf ELSE 0)
    IN  IF s = <<>> THEN Num(0)
        ELSE IF (ni = 0 /\ nf = 0) \/ read # Len(s) THEN NaN
        ELSE parseFloatText(s)

RECURSIVE DigitsOf(_)
\* The decimal digits of a natural number.
DigitsOf(k) ==
    IF k < 10 THEN <<DigitChars[k + 1]>>
    ELSE DigitsOf(k \div 10) \o <<DigitChars[(k % 10) + 1]>>

\* Number.prototype.toString of a number held in thousandths: the integer part
\* and, when there is a fraction, "." and its digits without trailing zeros.
NumberToString(n) ==
    LET m == IF n < 0 THEN 0 - n ELSE n
        f == m % 1000
        fraction == IF f = 0 THEN <<>>
                    ELSE IF f % 100 = 0 THEN <<".">> \o DigitsOf(f \div 100)
                    ELSE IF f % 10 = 0 THEN <<".", DigitChars[(f \div 100) + 1], DigitChars[((f \div 10) % 10) + 1]>>
                    ELSE <<".", DigitChars[(f \div 100) + 1], DigitChars[((f \div 10) % 10) + 1],
                           DigitChars[(f % 10) + 1]>>
    IN  (IF n < 0 THEN <<"-">> ELSE <<>>) \o DigitsOf(m \div 1000) \o fraction

\* item[key]: the value of the property, undefined when the object has none.
Cell(item, key) ==
    IF \E j \in 1..Len(item.cells) : item.cells[j].key = key
    THEN item.cells[CHOOSE j \in 1..Len(item.cells) :
                        item.cells[j].key = key
                        /\ \A k \in 1..Len(item.cells) : item.cells[k].key = key => k <= j].value
    ELSE Undefined

RECURSIVE SortByLogsDescending_TiesReversed(_)
\* The sort that puts a row before the rows of equal predicted_logs placed
\* before it.
SortByLogsDescending_TiesReversed(rows) ==
    IF rows = <<>> THEN <<>>
    ELSE LET x == rows[Len(rows)]
             sorted == SortByLogsDescending_TiesReversed(Sub(rows, 1, Len(rows) - 1))
             k == Cardinality({j \in 1..Len(sorted) : sorted[j].predicted_logs > x.predicted_logs})
         IN  Sub(sorted, 1, k) \o <<x>> \o Sub(sorted, k + 1, Len(sorted))

RECURSIVE SortByLogsDescending_Ascending(_)
\* The sort with the comparator a.predicted_logs - b.predicted_logs.
SortByLogsDescending_Ascending(rows) ==
    IF rows = <<>> THEN <<>>
    ELSE LET x == rows[Len(rows)]
             sorted == SortByLogsDescending_Ascending(Sub(rows, 1, Len(rows) - 1))
             k == Cardinality({j \in 1..Len(sorted) : sorted[j].predicted_logs <= x.predicted_logs})
         IN  Sub(sorted, 1, k) \o <<x>> \o Sub(sorted, k + 1, Len(sorted))

RECURSIVE SortByLogsDescending(_)
\* rows.sort((a, b) => b.predicted_logs - a.predicted_logs).  The sort is
\* stable: each row, in the order of the array, goes behind every row placed
\* before it whose predicted_logs is not smaller.
SortByLogsDescending(rows) ==
    IF rows = <<>> THEN <<>>
    ELSE LET x == rows[Len(rows)]
             sorted == SortByLogsDescending(Sub(rows, 1, Len(rows) - 1))
             k == Cardinality({j \in 1..Len(sorted) : sorted[j].predicted_logs >= x.predicted_logs})
         IN  Sub(sorted, 1, k) \o <<x>> \o Sub(sorted, k + 1, Len(sorted))

RECURSIVE SortAscending(_)
\* numbers.sort((a, b) => a - b)
SortAscending(numbers) ==
    IF numbers = <<>> THEN <<>>
    ELSE LET x == numbers[Len(numbers)]
             sorted == SortAscending(Sub(numbers, 1, Len(numbers) - 1))
             k == Cardinality({j \in 1..Len(sorted) : sorted[j] <= x})
         IN  Sub(sorted, 1, k) \o <<x>> \o Sub(sorted, k + 1, Len(sorted))

\* A property name that is an array index (digits without a leading zero):
\* Object.keys lists these first, in ascending order.
IsIndexKey(key) ==
    /\ key # <<>> /\ DigitRun(key, 1) = Len(key)
    /\ (key[1] = "0" => Len(key) = 1)

\* Object.keys(item): the index-like names in ascending order, then the other
\* names in the order they were written ("solvent" first).
ObjectKeys(item) ==
    LET names == [j \in 1..Len(item.cells) |-> item.cells[j].key]
        indexes == SelectSeq(names, IsIndexKey)
        notIndex(key) == ~IsIndexKey(key)
        ordered == SortAscending([j \in 1..Len(indexes) |-> NumberOf(indexes[j]).num])
    IN  [j \in 1..Len(ordered) |-> NumberToString(ordered[j])]
        \o <<<<"solvent">>>> \o SelectSeq(names, notIndex)

\* The temperatures of the keys in the order Object.keys lists them.
availableTemperatures_Unsorted(res) ==
    IF Has(res, "temperatures") THEN res.temperatures
    ELSE IF Has(res, "heatmap_data") /\ Len(res.heatmap_data) > 0
    THEN LET firstItem == res.heatmap_data[1]
             keys == ObjectKeys(firstItem)
             numeric(key) == key # <<"solvent">> /\ NumberOf(key) # NaN
             tempKeys == SelectSeq(keys, numeric)
         IN  [j \in 1..Len(tempKeys) |-> NumberOf(tempKeys[j]).num]
    ELSE [i \in 1..21 |-> (250 + (i - 1) * 10) * 1000]

\* availableTemperatures: results.temperatures when there is one, else the
\* numeric keys of the first row of heatmap_data in ascending order, else
\* 250, 260, ..., 450.
availableTemperatures(res) ==
    IF Has(res, "temperatures") THEN res.temperatures
    ELSE IF Has(res, "heatmap_data") /\ Len(res.heatmap_data) > 0
    THEN LET firstItem == res.heatmap_data[1]
             keys == ObjectKeys(firstItem)
             numeric(key) == key # <<"solvent">> /\ NumberOf(key) # NaN
             tempKeys == SelectSeq(keys, numeric)
         IN  SortAscending([j \in 1..Len(tempKeys) |-> NumberOf(tempKeys[j]).num])
    ELSE [i \in 1..21 |-> (250 + (i - 1) * 10) * 1000]

\* rankingsMap.get(key): the entry of the last ranking whose normalized name is
\* the key, undefined when there is none.
rankingsMapGet(res, key) ==
    LET rankings == IF Has(res, "rankings") THEN res.rankings ELSE <<>>
        hits == {j \in 1..Len(rankings) : normalizeSolventName(rankings[j].solvent_name) = key}
    IN  IF hits = {} THEN Undefined
        ELSE rankings[CHOOSE j \in hits : \A k \in hits : k <= j]

\* The same with the index of the row as its rank, the first row having rank 0.
filteredRankings_RankFromZero(res, selected) ==
    IF res = Null THEN <<>>
    ELSE IF Has(res, "heatmap_data") /\ Len(res.heatmap_data) > 0
    THEN LET tempKey == NumberToString(selected)
             row(item) ==
                 LET rankingData == rankingsMapGet(res, normalizeSolventName(item.solvent))
                     value == Cell(item, tempKey)
                 IN  [solvent_name |-> IF rankingData # Undefined /\ rankingData.solvent_name # <<>>
                                       THEN rankingData.solvent_name ELSE item.solvent,
                      solvent_smiles |-> IF rankingData # Undefined THEN rankingData.solvent_smiles ELSE <<>>,
                      predicted_logs |-> IF IsNum(value) THEN value ELSE parseFloat(Or(value, Str(<<"0">>)))]
             mapped == [i \in 1..Len(res.heatmap_data) |-> row(res.heatmap_data[i])]
             isNumber(r) == r.predicted_logs # NaN
             kept == SelectSeq(mapped, isNumber)
             rankingsWithLogS ==
                 SortByLogsDescending(
                     [i \in 1..Len(kept) |->
                         [solvent_name |-> kept[i].solvent_name, solvent_smiles |-> kept[i].solvent_smiles,
                          predicted_logs |-> kept[i].predicted_logs.num]])
         IN  [index \in 1..Len(rankingsWithLogS) |->
                 [solvent_name |-> rankingsWithLogS[index].solvent_name,
                  solvent_smiles |-> rankingsWithLogS[index].solvent_smiles,
                  predicted_logs |-> rankingsWithLogS[index].predicted_logs,
                  rank |-> index - 1]]
    ELSE IF Has(res, "rankings") THEN res.rankings ELSE <<>>


\* filteredRankings: with heatmap_data, one row per row of heatmap_data whose
\* value at the selected temperature is a number (or parses to one; a missing
\* value is read as "0"), sorted by that value, highest first, and ranked
\* 1, 2, ... in that order; without heatmap_data, results.rankings.
filteredRankings(res, selected) ==
    IF res = Null THEN <<>>
    ELSE IF Has(res, "heatmap_data") /\ Len(res.heatmap_data) > 0
    THEN LET tempKey == NumberToString(selected)
             row(item) ==
                 LET rankingData == rankingsMapGet(res, normalizeSolventName(item.solvent))
                     value == Cell(item, tempKey)
                 IN  [solvent_name |-> IF rankingData # Undefined /\ rankingData.solvent_name # <<>>
                                       THEN rankingData.solvent_name ELSE item.solvent,
                      solvent_smiles |-> IF rankingData # Undefined THEN rankingData.solvent_smiles ELSE <<>>,
                      predicted_logs |-> IF IsNum(value) THEN value ELSE parseFloat(Or(value, Str(<<"0">>)))]
             mapped == [i \in 1..Len(res.heatmap_data) |-> row(res.heatmap_data[i])]
             isNumber(r) == r.predicted_logs # NaN
             kept == SelectSeq(mapped, isNumber)
             rankingsWithLogS ==
                 SortByLogsDescending(
                     [i \in 1..Len(kept) |->
                         [solvent_name |-> kept[i].solvent_name, solvent_smiles |-> kept[i].solvent_smiles,
                          predicted_logs |-> kept[i].predicted_logs.num]])
         IN  [index \in 1..Len(rankingsWithLogS) |->
                 [solvent_name |-> rankingsWithLogS[index].solvent_name,
                  solvent_smiles |-> rankingsWithLogS[index].solvent_smiles,
                  predicted_logs |-> rankingsWithLogS[index].predicted_logs,
                  rank |-> index]]
    ELSE IF Has(res, "rankings") THEN res.rankings ELSE <<>>

\* The temperatures the rows of the panel hold a value for.
Key290 == <<"2", "9", "0">>
Key298 == <<"2", "9", "8", ".", "1", "5">>
Key300 == <<"3", "0", "0">>
Key310 == <<"3", "1", "0">>

\* Solvents of the panel as the backend can report them: the ranking's name,
\* SMILES and LogS at 300 K, and the row of heatmap_data.  The values of the
\* rows are numbers, numbers as text, text that is no number, null, or absent;
\* two rows tie at 300 K and two at 310 K.
PanelSamples ==
    << [name |-> Water, smiles |-> <<"O">>, logs |-> 600,
        item |-> [solvent |-> <<"w", "a", "t", "e", "r">>,
                  cells |-> << [key |-> Key290, value |-> Num(300)], [key |-> Key300, value |-> Num(600)],
                               [key |-> Key310, value |-> Num(900)] >>]],
       [name |-> Ethanol, smiles |-> <<"C", "C", "O">>, logs |-> -1200,
        item |-> [solvent |-> Ethanol \o <<Space, "(", "E", "t", "O", "H", ")">>,
                  cells |-> << [key |-> Key290, value |-> Num(-1500)], [key |-> Key300, value |-> Num(-1200)],
                               [key |-> Key310, value |-> Num(900)] >>]],
       [name |-> Acetone, smiles |-> <<"C", "C", "(", "=", "O", ")", "C">>, logs |-> 1500,
        item |-> [solvent |-> Acetone,
                  cells |-> << [key |-> Key300, value |-> Str(<<"1", ".", "5">>)],
                               [key |-> Key310, value |-> Null] >>]],
       [name |-> Hexane, smiles |-> <<"C", "C", "C", "C", "C", "C">>, logs |-> -5200,
        item |-> [solvent |-> Hexane,
                  cells |-> << [key |-> Key290, value |-> Num(-5300)], [key |-> Key300, value |-> Num(-5200)],
                               [key |-> Key310, value |-> Str(<<"N", "/", "A">>)],
                               [key |-> <<"u", "n", "i", "t">>, value |-> Str(<<"K">>)] >>]],
       [name |-> DMSO, smiles |-> <<"C", "S", "(", "=", "O", ")", "C">>, logs |-> 600,
        item |-> [solvent |-> DMSO,
                  cells |-> << [key |-> Key310, value |-> Num(0)], [key |-> Key298, value |-> Num(500)],
                               [key |-> Key290, value |-> Str(<<>>)], [key |-> Key300, value |-> Num(600)] >>]] >>

\* The largest number of solvents in a screening result of the model.
MaxSolvents == 3

\* The panels: up to MaxSolvents different solvents of the samples, in any order.
Panels ==
    UNION { { p \in [1..n -> 1..Len(PanelSamples)] : \A i, j \in 1..n : i # j => p[i] # p[j] } :
            n \in 0..MaxSolvents }

\* The rankings of a panel as the backend reports them: the solvents sorted by
\* their LogS at 300 K, highest first, ranked 1, 2, ...
PanelRankings(p) ==
    LET sorted == SortByLogsDescending(
                      [i \in 1..Len(p) |-> [solvent_name |-> PanelSamples[p[i]].name,
                                            solvent_smiles |-> PanelSamples[p[i]].smiles,
                                            predicted_logs |-> PanelSamples[p[i]].logs]])
    IN  [i \in 1..Len(sorted) |->
            [rank |-> i, solvent_name |-> sorted[i].solvent_name,
             solvent_smiles |-> sorted[i].solvent_smiles, predicted_logs |-> sorted[i].predicted_logs]]

\* The screening result of a panel without heatmap_data (the AnalysisResponse
\* of the types), with heatmap_data, and with heatmap_data and temperatures.
PanelResult(p) ==
    [ solute_smiles |-> Str(<<"C", "C", "O">>), solute_name |-> Str(<<"A">>),
      ranking_temperature_k |-> Num(300000),
      rankings |-> PanelRankings(p),
      static_heatmap_base64 |-> "static-1", dynamic_heatmap_base64 |-> "dynamic-1" ]

WithField(r, f, v) == [g \in DOMAIN r \cup {f} |-> IF g = f THEN v ELSE r[g]]

PanelHeatmap(p) == [i \in 1..Len(p) |-> PanelSamples[p[i]].item]

ScreeningSamples ==
    { PanelResult(p) : p \in Panels }
    \cup { WithField(PanelResult(p), "heatmap_data", PanelHeatmap(p)) : p \in Panels }
    \cup { WithField(WithField(PanelResult(p), "heatmap_data", PanelHeatmap(p)),
                     "temperatures", <<290000, 300000, 310000, 320000>>) : p \in Panels }

(***************************************************************************)
(* SpecRank: SolventScreening shows one screening result; the user changes *)
(* the view, the table mode and the temperature.                           *)
(***************************************************************************)
InitRank ==
    /\ logS = 0 /\ shown = NoValue /\ sheet = Null
    /\ results \in ScreeningSamples /\ resultType = "screening" /\ isProcessing = FALSE
    /\ HandlerIdle /\ NetIdle /\ ScreeningInitial
    /\ task = "solscreen" /\ FormEmpty /\ file = Null
    /\ FileInitial

\* ViewToggleSolvent: onViewChange(v).
SetView ==
    /\ ScreeningMounted
    /\ \E v \in {"heatmap", "table"} : v # view /\ view' = v
    /\ UNCHANGED <<tableMode, selectedTemperature, dialogVars, tierVars, pageVars, formVars, handlerVars, netVars>>

\* The two buttons of the mode toggle, shown in the table view when there is
\* heatmap_data and a temperature to choose.
SetTableMode ==
    /\ ScreeningMounted /\ view = "table"
    /\ Has(results, "heatmap_data") /\ Len(availableTemperatures(results)) > 0
    /\ \E m \in {"single", "multi"} : m # tableMode /\ tableMode' = m
    /\ UNCHANGED <<view, selectedTemperature, dialogVars, tierVars, pageVars, formVars, handlerVars, netVars>>

\* The temperature selector of the single-temperature table: an item's value
\* is temp.toString(), and onValueChange stores parseFloat(value).
SelectTemperature ==
    /\ ScreeningMounted /\ view = "table" /\ tableMode = "single"
    /\ \E i \in 1..Len(availableTemperatures(results)) :
         LET value == NumberToString(availableTemperatures(results)[i]) IN
         /\ parseFloatText(value).num # selectedTemperature
         /\ selectedTemperature' = parseFloatText(value).num
    /\ UNCHANGED <<view, tableMode, dialogVars, tierVars, pageVars, formVars, handlerVars, netVars>>

\* multiTempData: the rows of heatmap_data, each with the name and the SMILES
\* of the ranking of the same normalized name; empty without heatmap_data or
\* without rankings.
multiTempData(res) ==
    IF ~Has(res, "heatmap_data") \/ ~Has(res, "rankings") THEN <<>>
    ELSE [i \in 1..Len(res.heatmap_data) |->
             LET item == res.heatmap_data[i]
                 rankingData == rankingsMapGet(res, normalizeSolventName(item.solvent))
             IN  [solvent |-> item.solvent, cells |-> item.cells, solvent_display |-> item.solvent,
                  solvent_name |-> IF rankingData # Undefined /\ rankingData.solvent_name # <<>>
                                   THEN rankingData.solvent_name ELSE item.solvent,
                  solvent_smiles |-> IF rankingData # Undefined THEN rankingData.solvent_smiles ELSE <<>>]]

\* The image of the heatmap view: the dynamic heatmap with the enhanced
\* contrast, else the static one.
ShownHeatmap(res, enhanced) ==
    IF enhanced THEN res.dynamic_heatmap_base64 ELSE res.static_heatmap_base64

\* The switch of the heatmap view that also puts the temperature back to 300.
SetEnhancedContrast_ResetsTemperature ==
    /\ ScreeningMounted /\ view = "heatmap"
    /\ isEnhancedContrast' = ~isEnhancedContrast
    /\ selectedTemperature' = 300000
    /\ UNCHANGED <<view, tableMode, dialogOpen, selectedImage,
                   tierVars, pageVars, formVars, handlerVars, netVars>>

\* The switch of the heatmap view: onCheckedChange={setIsEnhancedContrast}.
SetEnhancedContrast ==
    /\ ScreeningMounted /\ view = "heatmap"
    /\ isEnhancedContrast' = ~isEnhancedContrast
    /\ UNCHANGED <<view, tableMode, selectedTemperature, dialogOpen, selectedImage,
                   tierVars, pageVars, formVars, handlerVars, netVars>>

\* openImageDialog: a click on the image of the heatmap view.
openImageDialog ==
    /\ ScreeningMounted /\ view = "heatmap"
    /\ selectedImage' = [url |-> ShownHeatmap(results, isEnhancedContrast),
                         title |-> IF isEnhancedContrast THEN "Dynamic Heatmap (Enhanced Contrast)"
                                   ELSE "Static Heatmap"]
    /\ dialogOpen' = TRUE
    /\ UNCHANGED <<view, tableMode, selectedTemperature, isEnhancedContrast,
                   tierVars, pageVars, formVars, handlerVars, netVars>>

\* ImageDialog onClose: setDialogOpen(false).
CloseImageDialog ==
    /\ ScreeningMounted /\ selectedImage # Null /\ dialogOpen
    /\ dialogOpen' = FALSE
    /\ UNCHANGED <<view, tableMode, selectedTemperature, isEnhancedContrast, selectedImage,
                   tierVars, pageVars, formVars, handlerVars, netVars>>

NextRank ==
    \/ SetView
    \/ SetTableMode
    \/ SelectTemperature

SpecRank == InitRank /\ [][NextRank]_vars

(***************************************************************************)
(* SpecScreen: screenings submitted one after the other from the single    *)
(* form, and between them the user's actions on SolventScreening.          *)
(***************************************************************************)
InitScreen ==
    /\ logS = 0 /\ shown = NoValue /\ sheet = Null
    /\ PageInitial
    /\ HandlerIdle /\ NetIdle /\ ScreeningInitial
    /\ task = "solscreen"
    /\ file = Null
    /\ soluteName = <<"A">> /\ soluteSmiles \in {<<>>, <<"C", "C", "O">>}
    /\ solventSmiles = <<>> /\ solventName = <<>> /\ temperature = <<"3", "0", "0">>
    /\ FileInitial

NextScreen ==
    \/ SingleSubmit
    \/ SingleSolventsResponse
    \/ ApiFetchFails
    \/ RouteSolventsStart
    \/ BackendSolvents
    \/ RouteSolventsFinish
    \/ NextClick
    \/ SetView
    \/ SetTableMode
    \/ SelectTemperature
    \/ SetEnhancedContrast
    \/ openImageDialog
    \/ CloseImageDialog

SpecScreen == InitScreen /\ [][NextScreen]_vars

(***************************************************************************)
(* The Predicted LogS cells on screen and in the exported worksheets.      *)
(***************************************************************************)
\* Number.prototype.toFixed of a number held in thousandths, for 2 or 3
\* digits: the sign, the integer part, "." and the digits of the fraction,
\* rounded to the nearest.  (A value half-way between two results is rounded
\* as its double lies; the samples hold no such value for 2 digits.)
toFixed(n, digits) ==
    LET m == IF n < 0 THEN 0 - n ELSE n
        unit == Pow10(3 - digits)
        q == (m + unit \div 2) \div unit
        frac == q % Pow10(digits)
    IN  (IF n < 0 THEN <<"-">> ELSE <<>>) \o DigitsOf(q \div Pow10(digits)) \o <<".">>
        \o [i \in 1..digits |-> DigitChars[((frac \div Pow10(digits - i)) % 10) + 1]]

\* The predicted_logs column of the prediction table: valueFormatter and
\* cellClass of a cell with the given value.
predictedLogsColumn(value) ==
    [ text |-> IF value \notin {Null, Undefined} THEN toFixed(value.num, 3) ELSE <<"-">>,
      cellClass |-> IF value \in {Null, Undefined} THEN "" ELSE getSolubilityClass_table(value.num) ]

\* The Predicted LogS columns of the screening table: valueFormatter and
\* cellClass of a cell with the given number (or null, undefined).
screeningLogsColumn(value) ==
    [ text |-> IF value \notin {Null, Undefined} THEN toFixed(value.num, 2) ELSE <<"N", "/", "A">>,
      cellClass |-> IF value \in {Null, Undefined} THEN "" ELSE getSolubilityClass_screening(value.num) ]

\* exportSolubilityPredictions, the Predicted LogS column (visible by default):
\* the cell of each row, its value predicted_logs?.toFixed(3) || "-" and its
\* fill the bgColor of getSolubilityClass(rowData.predicted_logs).  The
\* comparisons of getSolubilityClass read null as 0 and fail for undefined.
exportSolubilityPredictions(rows) ==
    [ name |-> "Solubility Predictions",
      rows |-> [i \in 1..Len(rows) |->
                   LET logs == rows[i].predicted_logs
                       solClass == IF IsNum(logs) THEN getSolubilityClass_excel(logs.num)
                                   ELSE IF logs = Null THEN getSolubilityClass_excel(0)
                                   ELSE getSolubilityClass_excel(0 - 1000000)
                   IN  << [field |-> "predicted_logs",
                           value |-> IF IsNum(logs) THEN toFixed(logs.num, 3) ELSE <<"-">>,
                           fill |-> solClass.bgColor, of |-> logs] >>] ]

\* The columns handed to the export of a screening: columnDefs in the single
\* mode, the two base columns and one column per temperature in the multi mode.
solventColumns(res, mode) ==
    IF mode = "single"
    THEN << [field |-> "rank", key |-> <<>>], [field |-> "solvent_name", key |-> <<>>],
            [field |-> "solvent_smiles", key |-> <<>>], [field |-> "predicted_logs", key |-> <<>>] >>
    ELSE << [field |-> "solvent_name", key |-> <<>>], [field |-> "solvent_smiles", key |-> <<>>] >>
         \o [i \in 1..Len(availableTemperatures(res)) |->
                [field |-> "temperature", key |-> NumberToString(availableTemperatures(res)[i])]]

\* exportSolventScreening: one row of cells per row of solventData.  The cell
\* of a LogS column holds Number(value).toFixed(2), or "N/A" for null and
\* undefined, and is filled with the bgColor of getSolubilityClass(parseFloat
\* of that text) unless it holds "N/A" or no number; the other cells hold the
\* value and have no fill.  Each cell keeps the value it was written from.
exportSolventScreening(solventData, columns, mode) ==
    [ name |-> IF mode = "single" THEN "Solvent Rankings" ELSE "Multi-Temperature Rankings",
      rows |-> [i \in 1..Len(solventData) |->
                   [c \in 1..Len(columns) |->
                       LET col == columns[c]
                           rowData == solventData[i]
                           value == CASE col.field = "temperature" -> Cell(rowData, col.key)
                                      [] col.field = "predicted_logs" -> Num(rowData.predicted_logs)
                                      [] col.field = "rank" -> Num(rowData.rank * 1000)
                                      [] OTHER -> Str(rowData[col.field])
                           number == IF IsStr(value) THEN NumberOf(value.str) ELSE value
                           text == IF value \in {Null, Undefined} THEN <<"N", "/", "A">>
                                   ELSE IF number = NaN THEN <<"N", "a", "N">>
                                   ELSE toFixed(number.num, 2)
                       IN  IF col.field \in {"temperature", "predicted_logs"}
                           THEN [field |-> col.field, value |-> text,
                                 fill |-> IF text # <<"N", "/", "A">> /\ parseFloatText(text) # NaN
                                          THEN getSolubilityClass_excel(parseFloatText(text).num).bgColor
                                          ELSE "none",
                                 of |-> value]
                           ELSE [field |-> col.field, value |-> value, fill |-> "none", of |-> value]]] ]

\* How far from a tier threshold the LogS values of the exported samples lie,
\* in thousandths.
ExportWindow == 6

\* LogS values around the four thresholds; the values half-way between two
\* hundredths are left out.
NearThresholds ==
    { t + d : t \in {500, -1000, -3000, -5000},
              d \in {x \in (0 - ExportWindow)..ExportWindow : x % 10 # 5} }

\* Pages to export: prediction pages of up to MaxRows rows, among them rows
\* with a null LogS, and screenings of one solvent whose LogS at 300 K lies
\* near a threshold, without and with heatmap_data.
ExportPages ==
    { << [array |-> [i \in 1..n |->
             WithImage(mergedRow(Predictions(n, k)[i], <<>>,
                                 [j \in 1..n |-> [solute_smiles |-> Str(<<"C">>), solvent_smiles |-> Str(<<"O">>),
                                                  temperature_k |-> Num(300000)]], i), Undefined)]],
         "prediction" >> : n \in 1..MaxRows, k \in 0..2 }
    \cup { << [ solute_smiles |-> Str(<<"C", "C", "O">>), solute_name |-> Str(<<"A">>),
                ranking_temperature_k |-> Num(300000),
                rankings |-> << [rank |-> 1, solvent_name |-> Water, solvent_smiles |-> <<"O">>,
                                 predicted_logs |-> v] >>,
                static_heatmap_base64 |-> "static-1", dynamic_heatmap_base64 |-> "dynamic-1" ],
              "screening" >> : v \in NearThresholds }
    \cup { << [ solute_smiles |-> Str(<<"C", "C", "O">>), solute_name |-> Str(<<"A">>),
                ranking_temperature_k |-> Num(300000),
                rankings |-> << [rank |-> 1, solvent_name |-> Water, solvent_smiles |-> <<"O">>,
                                 predicted_logs |-> v] >>,
                heatmap_data |-> << [solvent |-> Water,
                                     cells |-> << [key |-> <<"3", "0", "0">>, value |-> Num(v)],
                                                  [key |-> <<"3", "1", "0">>, value |-> Null] >>] >>,
                static_heatmap_base64 |-> "static-1", dynamic_heatmap_base64 |-> "dynamic-1" ],
              "screening" >> : v \in NearThresholds }

(***************************************************************************)
(* SpecExport: a page of results is shown and exported to Excel.           *)
(***************************************************************************)
InitExport ==
    /\ logS = 0 /\ shown = NoValue /\ sheet = Null
    /\ \E page \in ExportPages : results = page[1] /\ resultType = page[2]
    /\ isProcessing = FALSE
    /\ HandlerIdle /\ NetIdle /\ ScreeningInitial
    /\ task = IF resultType = "prediction" THEN "solpred" ELSE "solscreen"
    /\ FormEmpty /\ file = Null
    /\ FileInitial

\* The Export to Excel button of the prediction table.
ExportPredictions ==
    /\ ~isProcessing /\ results # Null /\ resultType = "prediction"
    /\ Len(results.array) > 0
    /\ sheet' = exportSolubilityPredictions(results.array)
    /\ UNCHANGED <<logS, shown, pageVars, formVars, handlerVars, netVars, viewVars>>

\* The Export to Excel button of the screening table: the rows of the grid in
\* the mode shown.
ExportScreening ==
    /\ ScreeningMounted /\ view = "table"
    /\ \E solventData \in {IF tableMode = "single" THEN filteredRankings(results, selectedTemperature)
                            ELSE multiTempData(results)},
          columns \in {solventColumns(results, tableMode)} :
           /\ Len(solventData) > 0
           /\ sheet' = exportSolventScreening(solventData, columns, tableMode)
    /\ UNCHANGED <<logS, shown, pageVars, formVars, handlerVars, netVars, viewVars>>

NextExport ==
    \/ SetView
    \/ SetTableMode
    \/ ExportPredictions
    \/ ExportScreening

SpecExport == InitExport /\ [][NextExport]_vars

(***************************************************************************)
(* SpecTier: a LogS value is drawn and every classifier is applied to it.  *)
(***************************************************************************)
InitTier ==
    /\ logS \in LogSValues
    /\ shown = NoValue /\ sheet = Null
    /\ AppIdle
    /\ task = "solpred"
    /\ FormEmpty
    /\ file = Null
    /\ FileInitial

\* A cell with the value logS is rendered: each helper is called on it.
Classify ==
    /\ shown = NoValue
    /\ shown' = [ color |-> getLogSColor(logS),
                  classification |-> getSolubilityClassification(logS),
                  tableClass |-> getSolubilityClass_table(logS),
                  screeningClass |-> getSolubilityClass_screening(logS),
                  excel |-> getSolubilityClass_excel(logS),
                  cmc |-> getCMCStatus(logS) ]
    /\ UNCHANGED <<logS, sheet, pageVars, formVars, handlerVars, netVars, viewVars>>

NextTier == Classify

SpecTier == InitTier /\ [][NextTier]_vars

(***************************************************************************)
(* The five tiers, as the universal thresholds define them, and the tier   *)
(* each kind of classifier output stands for.                              *)
(***************************************************************************)
TierOf(v) ==
    CASE v >= 500 -> "excellent"
      [] v >= -1000 /\ v < 500 -> "good"
      [] v >= -3000 /\ v < -1000 -> "moderate"
      [] v >= -5000 /\ v < -3000 -> "poor"
      [] v < -5000 -> "insoluble"

TierOfLabel(l) ==
    CASE l = "Excellent" -> "excellent"
      [] l = "Good" -> "good"
      [] l = "Moderate" -> "moderate"
      [] l = "Poorly Soluble" -> "poor"
      [] l = "Practically Insoluble" -> "insoluble"

TierOfClass(c) ==
    CASE c = "solubility-excellent" -> "excellent"
      [] c = "solubility-good" -> "good"
      [] c = "solubility-moderate" -> "moderate"
      [] c = "solubility-poor" -> "poor"
      [] c = "solubility-insoluble" -> "insoluble"

TierOfColor(c) ==
    CASE c.bg = "--solubility-excellent" -> "excellent"
      [] c.bg = "--solubility-good" -> "good"
      [] c.bg = "--solubility-moderate" -> "moderate"
      [] c.bg = "--solubility-poor" -> "poor"
      [] c.bg = "--solubility-insoluble" -> "insoluble"

\* C1: every tier classifier (getLogSColor, getSolubilityClassification and the
\* three getSolubilityClass helpers) maps the value to the tier the universal
\* thresholds give it, so the five agree on every value, boundaries included.
C1_FiveClassifiersAgree ==
    shown # NoValue =>
        /\ TierOfColor(shown.color) = TierOf(logS)
        /\ TierOfLabel(shown.classification) = TierOf(logS)
        /\ TierOfClass(shown.tableClass) = TierOf(logS)
        /\ TierOfClass(shown.screeningClass) = TierOf(logS)
        /\ TierOfLabel(shown.excel.label) = TierOf(logS)

\* A boundary value has been classified.
C1_Witness ==
    /\ shown # NoValue
    /\ logS \in {-5000, -3000, -1000, 500}

\* C2: getCMCStatus returns the tier label getSolubilityClassification returns
\* for the same value.
C2_CMCMatchesClassification ==
    shown # NoValue => shown.cmc.label = shown.classification

(***************************************************************************)
(* /api/predict: rows, queries and merged rows.                            *)
(***************************************************************************)
\* The uploaded file is being predicted: the batch form posted it to /api/predict.
BatchPredictCall == call.handler = "batch" /\ task = "solpred"

\* The cell of kind k of row i of the uploaded file, read through a column whose
\* name is one of `cols`; Null when the file has no such column or the cell is empty.
CellOf(i, k, cols) ==
    IF \E j \in 1..Len(file.header) : file.header[j].kind = k /\ file.header[j].col \in cols
          /\ file.rows[i][k] # <<>>
    THEN Str(file.rows[i][k]) ELSE Null

\* The backend answered the route with an array of predictions.
GotPredictions ==
    /\ route.received # Null /\ ~Failed(route.received)
    /\ route.received.ok /\ "array" \in DOMAIN route.received.body

\* C3: for an uploaded CSV of n rows the route posts n queries in row order
\* and, when n predictions come back, answers with n merged rows in the same
\* order: row i holds the SMILES and the metadata of CSV row i and the LogS,
\* temperature and warning of prediction i.
C3_MergedRowsFollowCsvOrder ==
    (BatchPredictCall /\ route.name = "predict" /\ route.fetches = 1) =>
        /\ Len(route.sent) = Len(file.rows)
        /\ \A i \in 1..Len(file.rows) :
              /\ route.sent[i].solute_smiles = Str(file.rows[i].solute)
              /\ route.sent[i].solvent_smiles = Str(file.rows[i].solvent)
        /\ (apiResp # Null /\ ~Failed(apiResp) /\ GotPredictions
               /\ Len(route.received.body.array) = Len(file.rows)) =>
              /\ apiResp.ok
              /\ Len(apiResp.body.array) = Len(file.rows)
              /\ \A i \in 1..Len(file.rows) :
                    LET m == apiResp.body.array[i] IN
                    /\ m.solute_smiles = Str(file.rows[i].solute)
                    /\ m.solvent_smiles = Str(file.rows[i].solvent)
                    /\ m.compound_name = CellOf(i, "name", {"Compound_Name", "compound_name"})
                    /\ m.solvent_name = CellOf(i, "solventName", {"Solvent_Name", "Solvent", "solvent_name"})
                    /\ m.predicted_logs = route.received.body.array[i].predicted_logs
                    /\ m.temperature_k = route.received.body.array[i].temperature_k
                    /\ m.warning = route.received.body.array[i].warning

\* The route has answered an upload of two rows or more with the merged rows.
C3_Witness ==
    /\ BatchPredictCall /\ route.name = "predict"
    /\ apiResp # Null /\ ~Failed(apiResp) /\ apiResp.ok
    /\ Len(file.rows) >= 2
    /\ Len(apiResp.body.array) = Len(file.rows)

\* C4: every query posted to the backend's /predict has a numeric temperature_k
\* above 0.
C4_ForwardedTemperaturePositive ==
    (route.name = "predict" /\ route.fetches >= 1) =>
        \A i \in 1..Len(route.sent) :
            IsNum(route.sent[i].temperature_k) /\ route.sent[i].temperature_k.num > 0

\* Row i of the uploaded file has no temperature: no temperature column, or an
\* empty cell.
NoTemperature(i) == CellOf(i, "temp", {"Temperature_K", "temperature_k"}) = Null

\* C5: a row of an uploaded CSV without a temperature gets no number put in
\* its place in the query posted to the backend.
C5_NoTemperatureSubstituted ==
    (BatchPredictCall /\ route.name = "predict" /\ route.fetches >= 1) =>
        \A i \in 1..Len(file.rows) :
            NoTemperature(i) => ~IsNum(route.sent[i].temperature_k)

(***************************************************************************)
(* The single form's validation and a failed screening request.            *)
(***************************************************************************)
\* The fields of the single form do not pass the checks of the form: no solute
\* SMILES after trimming or, for a prediction, no solvent SMILES after trimming
\* or a temperature that is no number above 0.
InvalidSingleInput ==
    \/ Trim(soluteSmiles) = <<>>
    \/ /\ task = "solpred"
       /\ \/ Trim(solventSmiles) = <<>>
          \/ ~IsNum(parseFloatText(temperature))
          \/ parseFloatText(temperature).num <= 0

\* C6: a click on the single form's submit button with fields that fail
\* validation sends no request, calls neither onProcessingStateChange nor
\* onProcess, and leaves the form's fields, the page and the network as they were.
C6_InvalidSubmitDoesNothing ==
    [][ (call.handler = "none" /\ call'.handler = "single" /\ InvalidSingleInput) =>
            /\ call'.requests = 0
            /\ call'.processing = <<>>
            /\ call'.onProcess = 0
            /\ call'.outcome = "returned"
            /\ UNCHANGED <<formVars, pageVars, netVars, pc>> ]_vars

\* The submit button was clicked for a prediction whose only invalid field is
\* the temperature, and the handler has returned.
C6_Witness ==
    /\ call.handler = "single" /\ call.outcome = "returned"
    /\ task = "solpred"
    /\ Trim(soluteSmiles) # <<>> /\ Trim(solventSmiles) # <<>>
    /\ temperature = <<"-", "5">>
    /\ call.toast = <<"error", "Please enter a valid temperature">>

\* The response to the /api/solvents request of the running handler is there
\* and is a failure: the fetch rejected or the status is not OK.
ScreeningRequestFailed ==
    /\ pc.at = "solvents"
    /\ apiResp # Null
    /\ (Failed(apiResp) \/ ~apiResp.ok)

\* C7: when the /api/solvents request of either form fails, the handler ends
\* without a call of onProcess, and results and resultType keep what they held
\* (or are cleared): nothing of the failed call is stored.
C7_FailedScreeningStoresNothing ==
    [][ ScreeningRequestFailed =>
            /\ pc' = NoHandler
            /\ call'.onProcess = 0
            /\ \/ UNCHANGED <<results, resultType>>
               \/ results' = Null /\ resultType' = "null" ]_vars

\* A screening request of the batch form got the route's answer to a backend
\* error, the handler has ended, and the page still shows earlier results.
C7_Witness ==
    /\ call.handler = "batch" /\ task = "solscreen"
    /\ call.requests = 1 /\ call.outcome # "none"
    /\ route.name = "solvents" /\ route.fetches = 1
    /\ route.received # Null /\ ~Failed(route.received) /\ ~route.received.ok
    /\ call.onProcess = 0
    /\ results # Null

(***************************************************************************)
(* The answers of POST /api/solvents.                                      *)
(***************************************************************************)
\* The route's answer carries an error message and nothing else.
ErrorBody(resp) == DOMAIN resp.body = {"error"} /\ resp.body.error # <<>>

\* C8: the route answers a request with exactly one of: 400 and an error body
\* without a call of the backend when solute_smiles is missing or empty; the
\* backend's status and an error body when the backend's response is not OK;
\* 500 and an error body when something threw; the backend's body unchanged
\* when the backend succeeded.
C8_SolventsRouteAnswers ==
    (route.name = "solvents" /\ route.pc = "idle") =>
        /\ apiResp # Null
        /\ IF "malformed" \in DOMAIN route.request
           THEN apiResp.status = 500 /\ ~apiResp.ok /\ ErrorBody(apiResp) /\ route.fetches = 0
           ELSE IF route.request.solute_smiles \in {Undefined, Null, Str(<<>>)}
           THEN apiResp.status = 400 /\ ~apiResp.ok /\ ErrorBody(apiResp) /\ route.fetches = 0
           ELSE /\ route.fetches = 1
                /\ route.sent.solute_smiles = route.request.solute_smiles
                /\ IF Failed(route.received)
                   THEN apiResp.status = 500 /\ ~apiResp.ok /\ ErrorBody(apiResp)
                   ELSE IF ~route.received.ok
                   THEN apiResp.status = route.received.status /\ ~apiResp.ok /\ ErrorBody(apiResp)
                   ELSE IF NotJson(route.received)
                   THEN apiResp.status = 500 /\ ~apiResp.ok /\ ErrorBody(apiResp)
                   ELSE apiResp.ok /\ apiResp.body = route.received.body

\* The route refused a body without solute_smiles, and did not call the backend.
C8_Witness ==
    /\ route.name = "solvents" /\ route.pc = "idle"
    /\ "solute_smiles" \in DOMAIN route.request
    /\ route.request.solute_smiles = Undefined
    /\ apiResp # Null /\ apiResp.status = 400
    /\ backendReq = Null /\ route.fetches = 0

(***************************************************************************)
(* The single-temperature ranking of SolventScreening.                     *)
(***************************************************************************)
\* The rows of the single-temperature table at the selected temperature.
DisplayedRows == filteredRankings(results, selectedTemperature)

\* The rows are computed from heatmap_data.
FromHeatmap == Has(results, "heatmap_data") /\ Len(results.heatmap_data) > 0

\* C9: at every temperature that can be selected, the ranks of the rows of the
\* single-temperature ranking are 1, 2, ..., n, each once, n being the number
\* of rows.
C9_RanksArePermutation ==
    \A rows \in {DisplayedRows} :
        /\ \A r \in 1..Len(rows) : Cardinality({i \in 1..Len(rows) : rows[i].rank = r}) = 1
        /\ \A i \in 1..Len(rows) : rows[i].rank \in 1..Len(rows)

\* The single-temperature table shows a ranking of two rows or more computed
\* from heatmap_data at a temperature other than 300 K.
C9_Witness ==
    /\ view = "table" /\ tableMode = "single"
    /\ FromHeatmap
    /\ selectedTemperature # 300000
    /\ Len(DisplayedRows) >= 2

\* C10: at every temperature that can be selected, the single-temperature
\* ranking has exactly one row for each solvent of the screening result.
C10_OneRowPerSolvent ==
    \A displayed \in {DisplayedRows} :
    \A rows \in {[i \in 1..Len(displayed) |-> normalizeSolventName(displayed[i].solvent_name)]} :
        /\ Len(rows) = Len(results.rankings)
        /\ \A k \in 1..Len(results.rankings) :
              Cardinality({i \in 1..Len(rows) :
                              rows[i] = normalizeSolventName(results.rankings[k].solvent_name)}) = 1

\* C11: in the single-temperature ranking a row of smaller rank never has a
\* smaller predicted_logs than a row of larger rank.
C11_RankOrderNonIncreasing ==
    \A rows \in {DisplayedRows} :
        \A i, j \in 1..Len(rows) :
            rows[i].rank < rows[j].rank => rows[i].predicted_logs >= rows[j].predicted_logs

\* The table shows a ranking computed from heatmap_data at a temperature other
\* than 300 K whose first row is not the first row of heatmap_data.
C11_Witness ==
    /\ view = "table" /\ tableMode = "single"
    /\ FromHeatmap
    /\ selectedTemperature # 300000
    /\ Len(DisplayedRows) >= 2
    /\ normalizeSolventName(DisplayedRows[1].solvent_name)
           # normalizeSolventName(results.heatmap_data[1].solvent)

\* The position in heatmap_data of the solvent of a displayed row.
PanelIndex(name) ==
    CHOOSE k \in 1..Len(results.heatmap_data) :
        normalizeSolventName(results.heatmap_data[k].solvent) = normalizeSolventName(name)

\* C12: of two rows of the ranking computed from heatmap_data that have the
\* same predicted_logs, the one that comes first in heatmap_data has the
\* smaller rank.
C12_TiesInPanelOrder ==
    FromHeatmap =>
        \A rows \in {DisplayedRows} :
            \A i, j \in 1..Len(rows) :
                (rows[i].predicted_logs = rows[j].predicted_logs
                    /\ PanelIndex(rows[i].solvent_name) < PanelIndex(rows[j].solvent_name))
                => rows[i].rank < rows[j].rank

\* The table shows a ranking computed from heatmap_data in which two rows have
\* the same predicted_logs and a third row a different one.
C12_Witness ==
    /\ view = "table" /\ tableMode = "single"
    /\ FromHeatmap
    /\ \E rows \in {DisplayedRows} :
          /\ \E i, j \in 1..Len(rows) : i # j /\ rows[i].predicted_logs = rows[j].predicted_logs
          /\ \E i, j \in 1..Len(rows) : rows[i].predicted_logs # rows[j].predicted_logs

\* The value heatmap_data holds for the solvent of row k at the selected
\* temperature.
SelectedCell(k) == Cell(results.heatmap_data[k], NumberToString(selectedTemperature))

\* C13: a solvent whose heatmap_data value at the selected temperature is
\* missing or null has no row with a numeric predicted_logs (and a rank) in the
\* single-temperature ranking.
C13_MissingCellNotPopulated ==
    FromHeatmap =>
        \A rows \in {DisplayedRows} :
            \A k \in 1..Len(results.heatmap_data) :
                SelectedCell(k) \in {Undefined, Null} =>
                    ~\E i \in 1..Len(rows) :
                        /\ normalizeSolventName(rows[i].solvent_name)
                               = normalizeSolventName(results.heatmap_data[k].solvent)
                        /\ rows[i].predicted_logs \in Int

\* The text is a decimal numeral: digits with at most one "." among them.
IsNumeral(key) ==
    /\ \E j \in 1..Len(key) : IsDigit(key[j])
    /\ \A j \in 1..Len(key) : IsDigit(key[j]) \/ key[j] = "."
    /\ Cardinality({j \in 1..Len(key) : key[j] = "."}) <= 1

\* C14: without temperatures and without heatmap_data the temperatures offered
\* are 250, 260, ..., 450 K (21 values, 300 among them); taken from the keys of
\* heatmap_data they are in ascending order and each is the number of a
\* numeric key of the first row.
C14_TemperatureGrid ==
    \A grid \in {availableTemperatures(results)} :
        /\ (~Has(results, "temperatures") /\ ~Has(results, "heatmap_data")) =>
              /\ Len(grid) = 21
              /\ \A i \in 1..21 : grid[i] = 250000 + (i - 1) * 10000
              /\ \E i \in 1..21 : grid[i] = 300000
        /\ (~Has(results, "temperatures") /\ FromHeatmap) =>
              /\ \A i \in 1..(Len(grid) - 1) : grid[i] <= grid[i + 1]
              /\ \A i \in 1..Len(grid) :
                    \E j \in 1..Len(results.heatmap_data[1].cells) :
                        /\ IsNumeral(results.heatmap_data[1].cells[j].key)
                        /\ parseFloatText(results.heatmap_data[1].cells[j].key) = Num(grid[i])

\* The temperatures offered come from a first row that holds the key 298.15
\* after its index-like keys.
C14_Witness ==
    /\ view = "table"
    /\ ~Has(results, "temperatures") /\ FromHeatmap
    /\ \E j \in 1..Len(results.heatmap_data[1].cells) : results.heatmap_data[1].cells[j].key = Key298
    /\ Len(availableTemperatures(results)) = 4

\* C15: a step of the mounted SolventScreening that changes isEnhancedContrast
\* leaves the stored results, the selected temperature, the table mode, the
\* single-temperature ranking and the multi-temperature rows as they were, and
\* the image shown is the dynamic heatmap exactly when the contrast is enhanced.
C15_ContrastToggleOnlyChangesImage ==
    [][(ScreeningMounted /\ ScreeningMounted' /\ isEnhancedContrast' # isEnhancedContrast) =>
          /\ results' = results /\ resultType' = resultType
          /\ selectedTemperature' = selectedTemperature
          /\ tableMode' = tableMode
          /\ filteredRankings(results', selectedTemperature')
                 = filteredRankings(results, selectedTemperature)
          /\ multiTempData(results') = multiTempData(results)
          /\ ShownHeatmap(results', isEnhancedContrast')
                 = (IF isEnhancedContrast THEN results.static_heatmap_base64
                    ELSE results.dynamic_heatmap_base64)]_vars

\* The contrast is enhanced on a screening whose table was put to the
\* multi-temperature mode and to another temperature than 300 K.
C15_Witness ==
    /\ ScreeningMounted /\ view = "heatmap" /\ isEnhancedContrast
    /\ tableMode = "multi" /\ selectedTemperature # 300000
    /\ Len(multiTempData(results)) > 0

\* C16: when a screening result is handed to onProcess, SolventScreening shows
\* it in the reference state: heatmap view, static scale, single-temperature
\* mode at 300 K, dialog closed.
C16_NewResultStartsFromReference ==
    [][(call'.onProcess = call.onProcess + 1 /\ resultType' = "screening") =>
          /\ ScreeningMounted'
          /\ view' = "heatmap" /\ ~isEnhancedContrast'
          /\ tableMode' = "single" /\ selectedTemperature' = 300000
          /\ ~dialogOpen' /\ selectedImage' = Null]_vars

\* A screening result has just been received and is shown in the reference
\* state.
C16_Witness ==
    /\ ScreeningMounted /\ call.handler = "single" /\ call.onProcess = 1
    /\ Has(results, "heatmap_data")
    /\ view = "heatmap" /\ ~isEnhancedContrast /\ tableMode = "single"
    /\ selectedTemperature = 300000 /\ ~dialogOpen

\* The handler invocation got past the checks of its input: the validation of
\* the single form, or, for a batch screening, a file whose first data row
\* names a solute.
PassedInputChecks ==
    /\ call.handler # "none" /\ call.processing # <<>>
    /\ pc # [who |-> "batch", at |-> "text"]
    /\ (call.handler = "batch" /\ task = "solscreen") => "error" \notin DOMAIN BatchSolute(file.text)

\* The handler invocation ended in a failure.
CallFailed ==
    \/ call.outcome = "rejected"
    \/ call.outcome = "returned" /\ call.toast[1] = "error"

\* C17: no request is repeated. A handler invocation issues at most one request
\* to /api/predict or /api/solvents, and exactly one once its input passed the
\* checks; a route invocation issues at most one request to the backend; a
\* request to a route is issued only by the handler on its way from the click
\* to its first response, a request to the backend only by a route that takes
\* a request of the front end; after a failed invocation nothing is in flight.
C17_NoAutomaticRetry ==
    /\ [](/\ call.requests <= 1
          /\ route.fetches <= 1
          /\ PassedInputChecks => call.requests = 1
          /\ CallFailed => /\ pc = NoHandler
                           /\ apiReq = Null /\ apiResp = Null
                           /\ backendReq = Null /\ backendResp = Null)
    /\ [][/\ (apiReq' # Null /\ apiReq' # apiReq) =>
                /\ apiReq = Null /\ call.requests = 0 /\ call'.requests = 1
                /\ pc \in {NoHandler, [who |-> "batch", at |-> "text"]}
          /\ (backendReq' # Null /\ backendReq' # backendReq) =>
                /\ backendReq = Null /\ apiReq # Null /\ apiReq' = Null
                /\ route.pc = "idle" /\ route'.fetches = 1]_vars

\* A batch prediction was rejected after its one request went through the
\* route to the backend, and nothing is in flight.
C17_Witness ==
    /\ call.handler = "batch" /\ task = "solpred" /\ CallFailed
    /\ call.requests = 1 /\ route.name = "predict" /\ route.fetches = 1
    /\ apiReq = Null /\ backendReq = Null

\* The tier an ARGB fill of the worksheet stands for; "none" for no tier fill.
TierOfFill(argb) ==
    CASE argb = "FF006400" -> "excellent"
      [] argb = "FF90EE90" -> "good"
      [] argb = "FFFFD700" -> "moderate"
      [] argb = "FFFF8C00" -> "poor"
      [] argb = "FF8B0000" -> "insoluble"
      [] OTHER -> "none"

\* The worksheet of the predictions has been written.
PredictionsExported == sheet # Null /\ sheet.name = "Solubility Predictions"

\* C18: a row of the prediction page whose predicted_logs is null is shown as
\* "-" without a tier class in the table, and as "-" without a tier fill in
\* the exported worksheet; every other row has the tier of its value in both.
C18_NullRowHasNoTier ==
    (resultType = "prediction" /\ results # Null) =>
        \A i \in 1..Len(results.array) :
            \A logs \in {results.array[i].predicted_logs} :
                /\ logs = Null =>
                      /\ predictedLogsColumn(logs) = [text |-> <<"-">>, cellClass |-> ""]
                      /\ PredictionsExported =>
                            /\ sheet.rows[i][1].value = <<"-">>
                            /\ TierOfFill(sheet.rows[i][1].fill) = "none"
                /\ IsNum(logs) =>
                      /\ TierOfClass(predictedLogsColumn(logs).cellClass) = TierOf(logs.num)
                      /\ PredictionsExported => TierOfFill(sheet.rows[i][1].fill) = TierOf(logs.num)

\* The worksheet of a screening has been written.
ScreeningExported == sheet # Null /\ sheet.name # "Solubility Predictions"

\* C19: every LogS cell of the exported screening worksheet that was written
\* from a number is filled with the colour of the tier of that number, the
\* tier the screening table shows for it.
C19_ExportTierIsGridTier ==
    ScreeningExported =>
        \A i \in 1..Len(sheet.rows) : \A c \in 1..Len(sheet.rows[i]) :
            \A cell \in {sheet.rows[i][c]} :
                (cell.field \in {"temperature", "predicted_logs"} /\ IsNum(cell.of)) =>
                    /\ TierOfFill(cell.fill) = TierOf(cell.of.num)
                    /\ TierOfFill(cell.fill) = TierOfClass(screeningLogsColumn(cell.of).cellClass)

\* The batch handler ended without handing a result to onProcess.
BatchFailed == call.handler = "batch" /\ call.outcome # "none" /\ call.onProcess = 0

\* C20: after a failed batch invocation the page holds no results (results and
\* resultType are null), an error toast with the message of the failure has
\* been shown, and isProcessing is false again.
C20_BatchFailureClearsAndReports ==
    BatchFailed =>
        /\ results = Null /\ resultType = "null"
        /\ call.toast[1] = "error"
        /\ ~isProcessing /\ call.processing = <<TRUE, FALSE>>

\* C21: whenever isProcessing is true it is false again later, however the
\* request ends: with a result, with an error status, with a failed image
\* call or with an Error thrown inside the handler.
C21_ProcessingEnds == isProcessing ~> ~isProcessing

\* A handler that had set isProcessing ended with an Error thrown from its
\* catch block, and isProcessing is false.
C21_Witness ==
    /\ call.outcome = "rejected" /\ call.processing = <<TRUE, FALSE>>
    /\ ~isProcessing /\ pc = NoHandler


\* A request to /api/predict or /api/solvents is under way: issued and not yet
\* taken by the route, in the route, or answered and not yet taken by the
\* handler that awaits it.
RequestPending == apiReq # Null \/ route.pc # "idle" \/ apiResp # Null

\* C22: at most one prediction or screening request is in flight: a handler
\* starts only while isProcessing is false and sets it, a request is issued
\* only while none is under way and with isProcessing true, and isProcessing
\* stays true while the request is under way and while the handler runs.
C22_OneRequestInFlight ==
    /\ []((RequestPending \/ pc # NoHandler) => isProcessing)
    /\ [][/\ (pc = NoHandler /\ pc' # NoHandler) => (~isProcessing /\ isProcessing')
          /\ (apiReq = Null /\ apiReq' # Null) => (~RequestPending /\ isProcessing')
          /\ call'.requests <= 1]_vars

\* A second submit is under way after a first one ended, with its request in
\* flight.
C22_Witness ==
    /\ results # Null /\ isProcessing /\ apiReq # Null /\ call.requests = 1

\* The data of a screening (an AnalysisResponse) and of a prediction (an array
\* of rows).
IsAnalysisResponse(data) == data # Null /\ "rankings" \in DOMAIN data
IsPredictionArray(data) == data # Null /\ "array" \in DOMAIN data

\* C23: results is null exactly when resultType is null, resultType is
\* 'screening' exactly when results is an AnalysisResponse and 'prediction'
\* exactly when results is an array of prediction rows; new results come with
\* the type of the task that produced them; SolventScreening is rendered only
\* with an AnalysisResponse and MoleculeTable only with a prediction array.
C23_ResultTypeMatchesResults ==
    /\ [](/\ (results = Null) <=> (resultType = "null")
          /\ (resultType = "screening") <=> IsAnalysisResponse(results)
          /\ (resultType = "prediction") <=> IsPredictionArray(results)
          /\ ScreeningMounted => IsAnalysisResponse(results)
          /\ TableMounted => IsPredictionArray(results) /\ resultType = "prediction")
    /\ [][(results' # results /\ results' # Null) =>
              resultType' = (IF task = "solpred" THEN "prediction" ELSE "screening")]_vars

\* A handler passed a prediction to onProcess: the page renders MoleculeTable
\* with it.
C23_Witness ==
    /\ TableMounted /\ resultType = "prediction" /\ call.onProcess = 1

\* The name a form field is expected to arrive as: the trimmed text, null
\* when that is empty.
EnteredName(text) == IF Trim(text) = <<>> THEN Null ELSE Str(Trim(text))

\* C24: in the single form's solpred mode the query sent to the backend
\* holds the trimmed solute and solvent SMILES and the temperature entered,
\* and the row passed to onProcess holds the trimmed names entered, whatever
\* characters the names contain.
C24_SingleValuesSurviveCsv ==
    /\ (call.handler = "single" /\ route.name = "predict" /\ route.fetches = 1) =>
          /\ Len(route.backendPayload) = 1
          /\ route.backendPayload[1].solute_smiles = Str(Trim(soluteSmiles))
          /\ route.backendPayload[1].solvent_smiles = Str(Trim(solventSmiles))
          /\ route.backendPayload[1].temperature_k = parseFloat(Str(temperature))
    /\ (call.handler = "single" /\ call.onProcess = 1 /\ locals.data # <<>>) =>
          /\ results.array[1].compound_name = EnteredName(soluteName)
          /\ results.array[1].solvent_name = EnteredName(solventName)

\* The trimmed cell of the first data row of file f in the column named col:
\* empty when the file has no such column.
FirstRowCell(f, col) ==
    IF \E j \in 1..Len(f.header) : f.header[j].col = col
    THEN Trim(f.rows[1][f.header[CHOOSE j \in 1..Len(f.header) : f.header[j].col = col].kind])
    ELSE <<>>

\* The first cell of the first data row that is not empty, among the columns
\* cols in their order; empty when there is none or the file has no data row.
RECURSIVE FirstRowValue(_, _)
FirstRowValue(f, cols) ==
    IF f.rows = <<>> \/ cols = <<>> THEN <<>>
    ELSE IF FirstRowCell(f, Head(cols)) # <<>> THEN FirstRowCell(f, Head(cols))
    ELSE FirstRowValue(f, Tail(cols))

\* The body of the one /api/solvents request C25 expects for file f.
ScreeningBodyOf(f) ==
    [solute_smiles |-> Str(FirstRowValue(f, <<"Solute_SMILES", "solute_smiles", "SMILES_Solute">>)),
     solute_name |-> IF FirstRowValue(f, <<"Solute_Name", "solute_name", "Compound_Name">>) = <<>>
                     THEN Undefined
                     ELSE Str(FirstRowValue(f, <<"Solute_Name", "solute_name", "Compound_Name">>))]

BatchImagesSettled ==
    /\ call.handler = "batch" /\ task = "solpred" /\ locals.images # <<>>
    /\ \A i \in 1..Len(locals.images) : locals.images[i] # "pending"
    /\ pc = NoHandler

\* C26: in batch prediction the rows passed to onProcess are the rows
\* /api/predict returned, as many and in the same order, in whatever order the
\* image requests settled; a failed image request leaves structure_base64 of
\* its own row undefined and nothing else changed, and the batch completes.
C26_RowsKeepOrder ==
    BatchImagesSettled =>
        /\ call.onProcess = 1 /\ call.outcome = "returned" /\ call.toast[1] = "success"
        /\ resultType = "prediction"
        /\ Len(results.array) = Len(route.received.body.array)
        /\ \A i \in 1..Len(results.array) :
              /\ DOMAIN results.array[i] = DOMAIN locals.data[i] \cup {"structure_base64"}
              /\ \A f \in DOMAIN locals.data[i] : results.array[i][f] = locals.data[i][f]
              /\ results.array[i].predicted_logs = route.received.body.array[i].predicted_logs
              /\ results.array[i].solute_smiles = route.backendPayload[i].solute_smiles
              /\ results.array[i].structure_base64 =
                    IF locals.images[i] = "ok" THEN Str(<<"png">>) ELSE Undefined

\* Two rows were processed; the image request of the first one threw and that
\* of the second one succeeded.
C26_Witness ==
    /\ BatchImagesSettled /\ call.onProcess = 1
    /\ locals.images = <<"throws", "ok">>
    /\ results.array[1].solute_smiles # results.array[2].solute_smiles

\* The single-temperature table is on the screen with at least one row.
SingleTableShown ==
    /\ ScreeningMounted /\ view = "table" /\ tableMode = "single"
    /\ DisplayedRows # <<>>

\* C27: in the single-temperature table the predicted_logs of every row is the
\* value of its solvent at the selected temperature: the number heatmap_data
\* holds for it there, or, for rows taken from results.rankings (which are
\* computed at ranking_temperature_k), that temperature being the selected one.
C27_ShownValuesAtSelectedTemperature ==
    SingleTableShown =>
        IF FromHeatmap
        THEN \A rows \in {DisplayedRows} :
                 \A i \in 1..Len(rows) :
                     IsNum(SelectedCell(PanelIndex(rows[i].solvent_name))) =>
                         rows[i].predicted_logs = SelectedCell(PanelIndex(rows[i].solvent_name)).num
        ELSE selectedTemperature = results.ranking_temperature_k.num

\* C28: file is null exactly when fileName is empty, fileName is the name of
\* the file, and hasSample is true only while the file is a sample file that
\* handleTrySample loaded.
C28_FileNameAndSampleFlag ==
    /\ (file = Null) <=> (fileName = "")
    /\ file # Null => fileName = file.name
    /\ hasSample => /\ file # Null
                    /\ file = SampleFile(file.name)
                    /\ file.name \in {sampleFileName("solpred"), sampleFileName("solscreen")}

\* A sample fetch ended while another one is still pending: the sample is the
\* file and hasSample is set.
C28_Witness ==
    /\ hasSample /\ file # Null /\ fileName = sampleFileName(task)
    /\ sampleLoads # <<>>
====
